---- MODULE Spec2Model ----
(***************************************************************************)
(* A model of D3D12DebugManager (renderdoc/driver/d3d12/d3d12_debug.cpp):  *)
(* the shader blob cache with its on-disk persistence, and the table of    *)
(* output windows with its handle / descriptor-slot counter.               *)
(***************************************************************************)
EXTENDS Integers, Sequences, FiniteSets, TLC

VARIABLES
  mgr,        \* the shader-cache side of the manager (fields named as in the source)
  disk,       \* the file "d3d12shaders.cache" on disk
  cold,       \* a second manager started on no cache file, fed the same calls
  coldDisk,   \* the disk of that second manager
  session,    \* number of the running process
  win,        \* the output-window side of the manager
  wnds,       \* the native windows: client size of each HWND
  dev,        \* the device: command lists recorded and not yet executed
  call,       \* the last watched output-window operation, its arguments and results
  watch,      \* the operations whose calls are recorded in call
  font,       \* the text renderer: m_Font's ring cursors and the caller's command list
  tex         \* the texture being displayed and what the last RenderTexture call did

cacheVars == <<mgr, disk, cold, coldDisk, session>>
winVars == <<win, wnds, dev, call, watch>>
gfxVars == <<font, tex>>
vars == <<mgr, disk, cold, coldDisk, session, win, wnds, dev, call, watch, font, tex>>

NULL == 0

(***************************************************************************)
(* Bounds of the model                                                     *)
(***************************************************************************)
\* width of the hash word (the source hashes in 32 bits)
HashBits == 12
\* GetShaderBlob calls made in one session
MaxCalls == 2
\* processes run one after another on the same disk
MaxSessions == 2

\* handles and descriptor slots handed out (m_OutputWindowID stays <= MaxID + 1)
MaxID == 2
\* largest client width / height of the native window
MaxDim == 2
\* command lists recorded and not yet executed
MaxPending == 1

\* FONT_MAX_CHARS in blocks of 16 characters (the header's value, scaled down)
FontMaxBlocks == 2
\* ARRAY_COUNT(m_Font.Constants) (the header's value, scaled down)
FontConstCount == 2

\* subresources of the displayed texture
MaxSub == 2
\* the largest finite float, in units of the 0.00001f nudge (a small float format)
MaxFloat == 3

\* how many flips in a row are followed
MaxFlips == 3

\* the longest text handed to RenderText, in characters
MaxText == 4

HashMod == 2 ^ HashBits

(***************************************************************************)
(* Bit operations on hash words                                            *)
(***************************************************************************)
RECURSIVE XorBits(_, _, _)
XorBits(a, b, n) ==
  IF n = 0 THEN 0
  ELSE ((a + b) % 2) + 2 * XorBits(a \div 2, b \div 2, n - 1)

\* hash ^= compileFlags
Xor(a, b) == XorBits(a, b % HashMod, HashBits)

D3DCOMPILE_NO_PRESHADER == 256

\* compileFlags & ~D3DCOMPILE_NO_PRESHADER
StripFlags(compileFlags) ==
  IF (compileFlags \div D3DCOMPILE_NO_PRESHADER) % 2 = 1
  THEN compileFlags - D3DCOMPILE_NO_PRESHADER
  ELSE compileFlags

\* strhash(str, seed): hash = hash * 33 + c over the characters
strhashSeed == 5381

RECURSIVE strhash(_, _)
strhash(str, seed) ==
  IF str = <<>> THEN seed % HashMod
  ELSE strhash(Tail(str), ((seed % HashMod) * 33 + Head(str)) % HashMod)

\* the four lines that open GetShaderBlob
ShaderHash(source, entry, profile, compileFlags) ==
  Xor(strhash(profile, strhash(entry, strhash(source, strhashSeed))), compileFlags)

(***************************************************************************)
(* The inputs GetShaderBlob is called with.  Strings are sequences of      *)
(* character codes.  <<1, 34>> and <<2, 1>> hash alike.                    *)
(***************************************************************************)
Sources == { <<1, 34>>, <<2, 1>>, <<3>>, <<4>>, <<5>> }
Entries == { <<7>> }
Profiles == { <<8>> }
Flags == { 0, D3DCOMPILE_NO_PRESHADER }

Inputs == [source : Sources, entry : Entries, profile : Profiles, flags : Flags]

(***************************************************************************)
(* The compiler: a function of its arguments.  Sources starting with 3     *)
(* compile with a warning, with 4 fail with diagnostics, with 5 fail       *)
(* without any diagnostic blob.                                            *)
(***************************************************************************)
D3DCompile(source, entry, profile, flags) ==
  LET k == Head(source)
      code == source \o entry \o profile \o <<flags>>
  IN  CASE k = 3 -> [failed |-> FALSE, byteBlob |-> code, errBlob |-> <<"warning">>]
        [] k = 4 -> [failed |-> TRUE, byteBlob |-> <<>>, errBlob |-> <<"error">>]
        [] k = 5 -> [failed |-> TRUE, byteBlob |-> <<>>, errBlob |-> <<>>]
        [] OTHER -> [failed |-> FALSE, byteBlob |-> code, errBlob |-> <<>>]

(***************************************************************************)
(* The cache file                                                          *)
(***************************************************************************)
m_ShaderCacheMagic == 47802
m_ShaderCacheVersion == 3

NoFile == [exists |-> FALSE, magic |-> 0, version |-> 0, entries |-> <<>>]

\* what an older build left behind: one record under the hash of a live input
StaleEntries == << <<ShaderHash(<<1, 34>>, <<7>>, <<8>>, 0), 1, <<99>>>> >>

WrongMagicFile ==
  [exists |-> TRUE, magic |-> m_ShaderCacheMagic + 1, version |-> m_ShaderCacheVersion,
   entries |-> StaleEntries]

WrongVersionFile ==
  [exists |-> TRUE, magic |-> m_ShaderCacheMagic, version |-> m_ShaderCacheVersion - 1,
   entries |-> StaleEntries]

InitialFiles == { NoFile, WrongMagicFile, WrongVersionFile }

\* ID3DBlob objects: the heap is a sequence, a blob pointer is an index, NULL is 0.
\* refs is the COM reference count, held the references callers were handed.
NewBlob(bytes, refs, held) == [bytes |-> bytes, refs |-> refs, held |-> held]

RECURSIVE LoadEntries(_, _, _)
LoadEntries(entries, cache, heap) ==
  IF entries = <<>> THEN [cache |-> cache, heap |-> heap]
  ELSE LET e == Head(entries)
           b == Len(heap) + 1
       IN  LoadEntries(Tail(entries),
                       [h \in DOMAIN cache \cup {e[1]} |-> IF h = e[1] THEN b ELSE cache[h]],
                       Append(heap, NewBlob(e[3], 1, 0)))

EmptyCache == [h \in {} |-> NULL]

LoadAccepts(file) ==
  file.exists /\ file.magic = m_ShaderCacheMagic /\ file.version = m_ShaderCacheVersion

\* LoadShaderCache(filename, magic, version, cache, callbacks)
LoadShaderCache(file) ==
  IF LoadAccepts(file)
  THEN [success |-> TRUE] @@ LoadEntries(file.entries, EmptyCache, <<>>)
  ELSE [success |-> FALSE, cache |-> EmptyCache, heap |-> <<>>]

RECURSIVE SaveEntries(_, _, _)
SaveEntries(keys, cache, heap) ==
  IF keys = {} THEN <<>>
  ELSE LET h == CHOOSE x \in keys : \A y \in keys : x <= y
           bytes == heap[cache[h]].bytes
       IN  <<<<h, Len(bytes), bytes>>>> \o SaveEntries(keys \ {h}, cache, heap)

\* SaveShaderCache(filename, magic, version, cache, callbacks)
SaveShaderCache(cache, heap) ==
  [exists |-> TRUE, magic |-> m_ShaderCacheMagic, version |-> m_ShaderCacheVersion,
   entries |-> SaveEntries(DOMAIN cache, cache, heap)]

(***************************************************************************)
(* The manager's cache state                                               *)
(***************************************************************************)
NoRet ==
  [valid |-> FALSE, input |-> <<>>, hash |-> 0, srcblob |-> NULL, bytes |-> <<>>,
   errors |-> <<>>, compiled |-> FALSE, failed |-> FALSE, hit |-> FALSE,
   caching |-> FALSE, dirtyBefore |-> FALSE, keysBefore |-> {}]

\* the constructor up to "m_CacheShaders = true"
DirtyAfterLoad_never(success) == FALSE

DirtyAfterLoad(success) == ~success

CtorLoad(file) ==
  LET l == LoadShaderCache(file)
  IN  [phase |-> "ctor",
       m_ShaderCache |-> l.cache,
       m_ShaderCacheDirty |-> DirtyAfterLoad(l.success),
       m_CacheShaders |-> TRUE,
       heap |-> l.heap,
       calls |-> 0,
       ret |-> NoRet,
       prev |-> NoRet,
       loaded |-> l.success,
       loadedFile |-> file,
       stored |-> FALSE,
       saved |-> FALSE]

Idle == [phase |-> "idle"]

(***************************************************************************)
(* GetShaderBlob                                                           *)
(***************************************************************************)
\* m_ShaderCache.find(hash) != m_ShaderCache.end()
CacheHit_never(m, hash) == FALSE

CacheHit(m, hash) == hash \in DOMAIN m.m_ShaderCache

\* if(m_CacheShaders)
CachingEnabled_always(m) == TRUE

CachingEnabled(m) == m.m_CacheShaders

\* m_ShaderCache[hash] = byteBlob
MapStore(cache, hash, blob) ==
  [h \in DOMAIN cache \cup {hash} |-> IF h = hash THEN blob ELSE cache[h]]

\* the body of if(m_CacheShaders), for a blob that is not NULL
StoreCompiled_keepclean(m, hash, byteBlob) ==
  [m EXCEPT !.m_ShaderCache = MapStore(@, hash, byteBlob),
            !.heap[byteBlob].refs = @ + 1,
            !.stored = TRUE]

StoreCompiled_noAddRef(m, hash, byteBlob) ==
  [m EXCEPT !.m_ShaderCache = MapStore(@, hash, byteBlob),
            !.m_ShaderCacheDirty = TRUE,
            !.stored = TRUE]

StoreCompiled(m, hash, byteBlob) ==
  [m EXCEPT !.m_ShaderCache = MapStore(@, hash, byteBlob),
            !.heap[byteBlob].refs = @ + 1,
            !.m_ShaderCacheDirty = TRUE,
            !.stored = TRUE]

\* byteBlob is NULL: the map is written, then NULL->AddRef() is an access
\* violation and the process ends there
StoreNull(m, hash) ==
  [m EXCEPT !.m_ShaderCache = MapStore(@, hash, NULL),
            !.phase = "crashed"]

GetShaderBlob(m, in) ==
  LET hash == ShaderHash(in.source, in.entry, in.profile, in.flags)
      base == [valid |-> TRUE, input |-> in, hash |-> hash,
               caching |-> m.m_CacheShaders,
               dirtyBefore |-> m.m_ShaderCacheDirty,
               keysBefore |-> DOMAIN m.m_ShaderCache]
      m0 == [m EXCEPT !.calls = @ + 1, !.prev = m.ret]
  IN
  IF CacheHit(m, hash)
  THEN \* *srcblob = m_ShaderCache[hash]; (*srcblob)->AddRef(); return ""
       LET b == m.m_ShaderCache[hash]
       IN  [m0 EXCEPT !.heap[b].refs = @ + 1,
                      !.heap[b].held = @ + 1,
                      !.ret = base @@ [srcblob |-> b, bytes |-> m.heap[b].bytes,
                                       errors |-> <<>>, compiled |-> FALSE,
                                       failed |-> FALSE, hit |-> TRUE]]
  ELSE LET r == D3DCompile(in.source, in.entry, in.profile, StripFlags(in.flags))
           heap1 == IF r.failed THEN m.heap
                    ELSE Append(m.heap, NewBlob(r.byteBlob, 1, 0))
           byteBlob == IF r.failed THEN NULL ELSE Len(heap1)
           m1 == [m0 EXCEPT !.heap = heap1]
           miss == base @@ [errors |-> r.errBlob, compiled |-> TRUE,
                            failed |-> r.failed, hit |-> FALSE]
           none == miss @@ [srcblob |-> NULL, bytes |-> <<>>]
           some == miss @@ [srcblob |-> byteBlob, bytes |-> r.byteBlob]
       IN
       IF r.errBlob # <<>> /\ r.failed
       THEN \* SAFE_RELEASE(byteBlob); return errors;   *srcblob is not written
            [m1 EXCEPT !.ret = none]
       ELSE IF CachingEnabled(m)
            THEN IF byteBlob = NULL
                 THEN [StoreNull(m1, hash) EXCEPT !.ret = none]
                 ELSE [StoreCompiled(m1, hash, byteBlob) EXCEPT
                         !.heap[byteBlob].held = 1, !.ret = some]
            ELSE \* *srcblob = byteBlob; return errors
                 IF byteBlob = NULL
                 THEN [m1 EXCEPT !.ret = none]
                 ELSE [m1 EXCEPT !.heap[byteBlob].held = 1, !.ret = some]

\* a caller drops a reference it was handed: blob->Release()
Release(m, b) ==
  [m EXCEPT !.heap[b].refs = @ - 1, !.heap[b].held = @ - 1]

\* the last line of the constructor
CtorEnd(m) == [m EXCEPT !.phase = "live", !.m_CacheShaders = FALSE]

\* ~D3D12DebugManager: the cache part
DtorSaves_never(m) == FALSE

DtorSaves(m) == m.m_ShaderCacheDirty

CachedBlobs(m) == { m.m_ShaderCache[h] : h \in DOMAIN m.m_ShaderCache }

Dtor(m) ==
  IF DtorSaves(m)
  THEN [m EXCEPT !.phase = "destroyed", !.saved = TRUE]
  ELSE [m EXCEPT !.phase = "destroyed",
                 !.heap = [b \in DOMAIN m.heap |->
                             IF b \in CachedBlobs(m)
                             THEN [m.heap[b] EXCEPT !.refs = @ - 1]
                             ELSE m.heap[b]]]

DtorDisk(m, file) ==
  IF DtorSaves(m) THEN SaveShaderCache(m.m_ShaderCache, m.heap) ELSE file

(***************************************************************************)
(* Actions of the shader cache                                             *)
(***************************************************************************)
Running(m) == m.phase \in {"ctor", "live"}

\* the same step taken by the manager that started on no file
Shadow(next) == IF Running(cold) THEN next ELSE cold

GetShaderBlobCall ==
  \E in \in Inputs :
    /\ Running(mgr)
    /\ mgr.calls < MaxCalls
    /\ mgr' = GetShaderBlob(mgr, in)
    /\ cold' = Shadow(GetShaderBlob(cold, in))
    /\ UNCHANGED <<disk, coldDisk, session>>

ReleaseBlob ==
  \E b \in DOMAIN mgr.heap :
    /\ Running(mgr)
    /\ mgr.heap[b].held > 0
    /\ mgr' = Release(mgr, b)
    /\ cold' = IF Running(cold) /\ b \in DOMAIN cold.heap /\ cold.heap[b].held > 0
               THEN Release(cold, b) ELSE cold
    /\ UNCHANGED <<disk, coldDisk, session>>

EndConstruction ==
  /\ mgr.phase = "ctor"
  /\ mgr' = CtorEnd(mgr)
  /\ cold' = Shadow(CtorEnd(cold))
  /\ UNCHANGED <<disk, coldDisk, session>>

Destructor ==
  /\ mgr.phase = "live"
  /\ mgr' = Dtor(mgr)
  /\ disk' = DtorDisk(mgr, disk)
  /\ cold' = Shadow(Dtor(cold))
  /\ coldDisk' = IF Running(cold) THEN DtorDisk(cold, coldDisk) ELSE coldDisk
  /\ UNCHANGED session

\* a file that exists and is refused by LoadShaderCache
Mismatched(file) == file.exists /\ ~LoadAccepts(file)

ColdStart(file) == IF Mismatched(file) THEN CtorLoad(NoFile) ELSE Idle

\* the next process starts on the disk the last one left
NewSession ==
  /\ mgr.phase \in {"destroyed", "crashed"}
  /\ session < MaxSessions
  /\ session' = session + 1
  /\ mgr' = CtorLoad(disk)
  /\ cold' = ColdStart(disk)
  /\ coldDisk' = NoFile
  /\ UNCHANGED disk

InitCache ==
  /\ disk \in InitialFiles
  /\ mgr = CtorLoad(disk)
  /\ cold = ColdStart(disk)
  /\ coldDisk = NoFile
  /\ session = 1

WinQuiet ==
  /\ win = <<>>
  /\ wnds = <<1, 1>>
  /\ dev = <<>>
  /\ call = <<>>
  /\ watch = {}

\* no text is drawn, no texture displayed
GfxQuiet ==
  /\ font = <<>>
  /\ tex = <<>>

InitCacheOnly == InitCache /\ WinQuiet /\ GfxQuiet

NextCache ==
  \/ GetShaderBlobCall /\ UNCHANGED <<winVars, gfxVars>>
  \/ ReleaseBlob /\ UNCHANGED <<winVars, gfxVars>>
  \/ EndConstruction /\ UNCHANGED <<winVars, gfxVars>>
  \/ Destructor /\ UNCHANGED <<winVars, gfxVars>>
  \/ NewSession /\ UNCHANGED <<winVars, gfxVars>>

SpecCache == InitCacheOnly /\ [][NextCache]_vars

(***************************************************************************)
(* Properties of the shader cache                                          *)
(***************************************************************************)
\* the last two GetShaderBlob calls of this session had the same inputs and
\* the first of them returned a blob
SameInputTwice(m) ==
  /\ m.ret.valid /\ m.prev.valid
  /\ m.ret.input = m.prev.input
  /\ ~m.prev.failed /\ m.prev.srcblob # NULL

\* C1 as stated: in every session phase, the second of two successive
\* GetShaderBlob calls with identical inputs returns byte-equal bytecode and
\* does not invoke the compiler.
C1_IdempotentAnyPhase ==
  SameInputTwice(mgr) =>
    /\ mgr.ret.bytes = mgr.prev.bytes
    /\ ~mgr.ret.compiled

\* C1 amended: the second call always returns byte-equal bytecode; it does not
\* invoke the compiler when the first call was a hit or was made while caching
\* was enabled (during construction), and it compiles again when the first
\* call was a miss made after construction.
C1_IdempotentWhenResident ==
  SameInputTwice(mgr) =>
    /\ mgr.ret.bytes = mgr.prev.bytes
    /\ mgr.ret.srcblob # NULL
    /\ (mgr.prev.hit \/ mgr.prev.caching) => (mgr.ret.hit /\ ~mgr.ret.compiled)
    /\ (~mgr.prev.hit /\ ~mgr.prev.caching) => mgr.ret.compiled

C1_Witness ==
  /\ SameInputTwice(mgr)
  /\ mgr.prev.compiled /\ mgr.prev.caching
  /\ mgr.ret.hit /\ ~mgr.ret.caching

C1_WitnessUncached ==
  /\ SameInputTwice(mgr)
  /\ mgr.prev.compiled /\ ~mgr.prev.caching
  /\ mgr.ret.compiled

FileHashes(file) == { file.entries[i][1] : i \in DOMAIN file.entries }

FileBytes(file, h) ==
  LET i == CHOOSE j \in DOMAIN file.entries : file.entries[j][1] = h
  IN  file.entries[i][3]

\* C2: what a session stored is in the file its destructor leaves, and a later
\* session that loads that file answers GetShaderBlob for every hash of the
\* file with the stored bytes, without invoking the compiler.
C2_PersistenceRoundTrip ==
  /\ (mgr.phase = "destroyed" /\ mgr.stored) =>
       /\ LoadAccepts(disk)
       /\ FileHashes(disk) = DOMAIN mgr.m_ShaderCache
       /\ \A h \in DOMAIN mgr.m_ShaderCache :
            FileBytes(disk, h) = mgr.heap[mgr.m_ShaderCache[h]].bytes
  /\ (session > 1 /\ mgr.loaded) =>
       /\ \A h \in FileHashes(mgr.loadedFile) :
            /\ h \in DOMAIN mgr.m_ShaderCache
            /\ mgr.heap[mgr.m_ShaderCache[h]].bytes = FileBytes(mgr.loadedFile, h)
       /\ (mgr.ret.valid /\ mgr.ret.hash \in FileHashes(mgr.loadedFile)) =>
            /\ mgr.ret.srcblob # NULL
            /\ mgr.ret.bytes = FileBytes(mgr.loadedFile, mgr.ret.hash)
            /\ ~mgr.ret.compiled

C2_Witness ==
  /\ session > 1 /\ mgr.loaded
  /\ mgr.phase = "live"
  /\ mgr.ret.valid /\ ~mgr.ret.caching
  /\ mgr.ret.hash \in FileHashes(mgr.loadedFile)
  /\ mgr.ret.hit

Observable(m) ==
  [phase |-> m.phase, m_ShaderCache |-> m.m_ShaderCache,
   m_ShaderCacheDirty |-> m.m_ShaderCacheDirty, m_CacheShaders |-> m.m_CacheShaders,
   heap |-> m.heap, ret |-> m.ret, prev |-> m.prev, saved |-> m.saved]

C4_WrittenIffDirtied ==
  [][ (mgr.phase = "live" /\ mgr'.phase = "destroyed") =>
        /\ mgr'.saved <=> (~mgr.loaded \/ mgr.stored)
        /\ ~mgr'.saved => disk' = disk
        /\ (mgr.loaded /\ ~mgr.stored) =>
             /\ disk' = disk
             /\ DOMAIN mgr'.heap = DOMAIN mgr.heap
             /\ \A b \in DOMAIN mgr.heap :
                  mgr'.heap[b].refs =
                    mgr.heap[b].refs - (IF b \in CachedBlobs(mgr) THEN 1 ELSE 0)
    ]_vars

C4_Witness ==
  /\ mgr.phase = "destroyed"
  /\ mgr.loaded /\ ~mgr.stored /\ ~mgr.saved
  /\ mgr.ret.hit
  /\ mgr.m_ShaderCache # EmptyCache

\* C5: a failed compile returns no blob, adds no entry to the cache map and
\* leaves the dirty flag as it was.
C5_FailedCompileNotCached ==
  (mgr.ret.valid /\ mgr.ret.failed) =>
    /\ mgr.ret.srcblob = NULL
    /\ DOMAIN mgr.m_ShaderCache = mgr.ret.keysBefore
    /\ mgr.m_ShaderCacheDirty = mgr.ret.dirtyBefore

(***************************************************************************)
(* Output windows                                                          *)
(***************************************************************************)
\* a GPU resource pointer: NULL, or a resource with its size and state
NullRes == [null |-> TRUE, w |-> 0, h |-> 0, state |-> "none"]

Res(w, h, state) == [null |-> FALSE, w |-> w, h |-> h, state |-> state]

\* the one native window the surfaces are made on
TheWnd == 1

Dims == 0 .. MaxDim

IDs == 0 .. MaxID + 1

\* the OutputWindow a std::map subscript inserts: every member zero
ZeroWindow ==
  [wnd |-> NULL, swap |-> FALSE, bb |-> <<NullRes, NullRes>>, bbIdx |-> 0,
   rtv |-> 0, dsv |-> 0, col |-> NullRes, depth |-> NullRes,
   width |-> 0, height |-> 0]

\* m_OutputWindows[id] = outw
Put(table, id, outw) ==
  [k \in DOMAIN table \cup {id} |-> IF k = id THEN outw ELSE table[k]]

\* m_OutputWindows[id] on a std::map: an absent key is inserted
Subscript(table, id) ==
  IF id \in DOMAIN table THEN table ELSE Put(table, id, ZeroWindow)

\* id == 0 || m_OutputWindows.find(id) == m_OutputWindows.end()
Unknown(w, id) == id = 0 \/ id \notin DOMAIN w.m_OutputWindows

\* OutputWindow::MakeRTV: the colour target takes the back buffer's size
MakeRTV_keepsOld(outw, ok) ==
  IF ~outw.col.null THEN outw
  ELSE IF ok
       THEN [outw EXCEPT !.col = Res(outw.bb[1].w, outw.bb[1].h, "RENDER_TARGET")]
       ELSE [outw EXCEPT !.col = NullRes]

MakeRTV(outw, ok) ==
  IF ok
  THEN [outw EXCEPT !.col = Res(outw.bb[1].w, outw.bb[1].h, "RENDER_TARGET")]
  ELSE [outw EXCEPT !.col = NullRes]

\* OutputWindow::MakeDSV
MakeDSV(outw, ok) ==
  IF ok
  THEN [outw EXCEPT !.depth = Res(outw.bb[1].w, outw.bb[1].h, "DEPTH_WRITE")]
  ELSE [outw EXCEPT !.depth = NullRes]

\* m_OutputWindowID++
NextWindowID_stuck(id) == id

NextWindowID(id) == id + 1

\* what an operation leaves: the manager, the device, the value returned and
\* the caller's w and h
Result(w, d, ret) == [win |-> w, dev |-> d, ret |-> ret, outW |-> -1, outH |-> -1]

\* MakeOutputWindow when CreateSwapChain fails: return 0
MakeFailed_burnsID(w) == [w EXCEPT !.m_OutputWindowID = NextWindowID(@)]

MakeFailed(w) == w

\* MakeOutputWindow when CreateSwapChain succeeds
MakeSucceeded(w, size, depth, rtvOK, dsvOK) ==
  LET bb == Res(size[1], size[2], "PRESENT")
      o1 == [wnd |-> TheWnd, swap |-> TRUE, bb |-> <<bb, bb>>, bbIdx |-> 0,
             rtv |-> w.m_OutputWindowID, dsv |-> w.m_OutputWindowID,
             col |-> NullRes, depth |-> NullRes,
             width |-> size[1], height |-> size[2]]
      o2 == MakeRTV(o1, rtvOK)
      outw == IF depth THEN MakeDSV(o2, dsvOK) ELSE o2
      id == w.m_OutputWindowID
  IN  [w EXCEPT !.m_OutputWindowID = NextWindowID(@),
                !.m_OutputWindows = Put(@, id, outw),
                !.returned = Append(@, id)]

MakeOutputWindowOp(w, d, size, depth, swapOK, rtvOK, dsvOK) ==
  IF swapOK
  THEN Result(MakeSucceeded(w, size, depth, rtvOK, dsvOK), d, w.m_OutputWindowID)
  ELSE Result(MakeFailed(w), d, 0)

DestroyOutputWindowOp(w, d, id) ==
  IF Unknown(w, id)
  THEN Result(w, d, 0)
  ELSE Result([w EXCEPT !.m_OutputWindows = [k \in DOMAIN @ \ {id} |-> @[k]],
                        !.destroyed = @ \cup {id}],
              d, 0)

\* outw.width = w; outw.height = h
StoreSize_none(outw, w, h) == outw

StoreSize(outw, w, h) == [outw EXCEPT !.width = w, !.height = h]

\* the body of if(w != outw.width || h != outw.height), after the flush
Resized(outw0, w, h, resizeOK, rtvOK, dsvOK) ==
  LET outw == StoreSize(outw0, w, h)
  IN
  IF outw.width > 0 /\ outw.height > 0
  THEN LET released == [outw EXCEPT !.bb = <<NullRes, NullRes>>]
       IN  IF ~resizeOK
           THEN released
           ELSE LET bb == Res(outw.width, outw.height, "PRESENT")
                    got == [released EXCEPT !.bb = <<bb, bb>>, !.bbIdx = 0]
                IN  IF ~got.depth.null
                    THEN MakeDSV(MakeRTV(got, rtvOK), dsvOK)
                    ELSE MakeRTV(got, rtvOK)
  ELSE outw

CheckResizeOutputWindowOp_flushesFirst(w, d, size, id, resizeOK, rtvOK, dsvOK) ==
  IF Unknown(w, id)
  THEN Result(w, d, 0)
  ELSE LET outw == w.m_OutputWindows[id]
       IN  IF outw.wnd = NULL \/ ~outw.swap
           THEN Result(w, d, 0)
           ELSE IF size[1] # outw.width \/ size[2] # outw.height
                THEN Result([w EXCEPT !.m_OutputWindows[id] =
                               Resized(outw, size[1], size[2], resizeOK, rtvOK, dsvOK)],
                            <<>>, 1)
                ELSE Result(w, <<>>, 0)

CheckResizeOutputWindowOp(w, d, size, id, resizeOK, rtvOK, dsvOK) ==
  IF Unknown(w, id)
  THEN Result(w, d, 0)
  ELSE LET outw == w.m_OutputWindows[id]
       IN  IF outw.wnd = NULL \/ ~outw.swap
           THEN Result(w, d, 0)
           ELSE IF size[1] # outw.width \/ size[2] # outw.height
                THEN Result([w EXCEPT !.m_OutputWindows[id] =
                               Resized(outw, size[1], size[2], resizeOK, rtvOK, dsvOK)],
                            <<>>, 1)
                ELSE Result(w, d, 0)

GetOutputWindowDimensionsOp(w, d, id) ==
  IF Unknown(w, id)
  THEN Result(w, d, 0)
  ELSE [Result(w, d, 0) EXCEPT !.outW = w.m_OutputWindows[id].width,
                               !.outH = w.m_OutputWindows[id].height]

\* GetNewList(), one command, Close(): the list stays with the device
Recorded(d, op) == Append(d, op)

ClearOutputWindowColourOp(w, d, id) ==
  IF Unknown(w, id)
  THEN Result(w, d, 0)
  ELSE Result(w, Recorded(d, "ClearRenderTargetView"), 0)

ClearOutputWindowDepthOp(w, d, id) ==
  IF Unknown(w, id)
  THEN Result(w, d, 0)
  ELSE Result(w, Recorded(d, "ClearDepthStencilView"), 0)

BindOutputWindowOp(w, d, id) ==
  IF Unknown(w, id)
  THEN Result(w, d, 0)
  ELSE LET outw == w.m_OutputWindows[id]
       IN  IF outw.bb[1].null
           THEN Result([w EXCEPT !.m_CurrentOutputWindow = id], d, 0)
           ELSE Result([w EXCEPT !.m_CurrentOutputWindow = id,
                                 !.m_width = outw.width,
                                 !.m_height = outw.height],
                       d, 0)

\* the list is recorded, executed and flushed, then Present and the index moves
FlipOutputWindowOp_stays(w, d, id) ==
  IF Unknown(w, id)
  THEN Result(w, d, 0)
  ELSE IF w.m_OutputWindows[id].bb[1].null
       THEN Result(w, d, 0)
       ELSE Result(w, <<>>, 0)

FlipOutputWindowOp(w, d, id) ==
  IF Unknown(w, id)
  THEN Result(w, d, 0)
  ELSE IF w.m_OutputWindows[id].bb[1].null
       THEN Result(w, d, 0)
       ELSE Result([w EXCEPT !.m_OutputWindows[id].bbIdx = (@ + 1) % 2], <<>>, 0)

\* the calls that take a surface handle and return early on an unknown one
SevenOps ==
  {"DestroyOutputWindow", "ClearOutputWindowColour", "ClearOutputWindowDepth",
   "FlipOutputWindow", "GetOutputWindowDimensions", "CheckResizeOutputWindow",
   "BindOutputWindow"}

HandleOp(op, w, d, size, id) ==
  CASE op = "DestroyOutputWindow" -> DestroyOutputWindowOp(w, d, id)
    [] op = "ClearOutputWindowColour" -> ClearOutputWindowColourOp(w, d, id)
    [] op = "ClearOutputWindowDepth" -> ClearOutputWindowDepthOp(w, d, id)
    [] op = "FlipOutputWindow" -> FlipOutputWindowOp(w, d, id)
    [] op = "GetOutputWindowDimensions" -> GetOutputWindowDimensionsOp(w, d, id)
    [] op = "CheckResizeOutputWindow" ->
         CheckResizeOutputWindowOp(w, d, size, id, TRUE, TRUE, TRUE)
    [] op = "BindOutputWindow" -> BindOutputWindowOp(w, d, id)

\* OutputWindow &outw = m_OutputWindows[m_CurrentOutputWindow];
\* then the list is recorded, executed and flushed
RenderCheckerboardOp(w, d) ==
  Result([w EXCEPT !.m_OutputWindows = Subscript(@, w.m_CurrentOutputWindow)], <<>>, 0)

RenderTextureOp(w, d, formatKnown) ==
  IF ~formatKnown
  THEN Result(w, d, 0)
  ELSE Result([w EXCEPT !.m_OutputWindows = Subscript(@, w.m_CurrentOutputWindow)],
              <<>>, 1)

AllocRTVOp_sameSlot(w, d) ==
  Result([w EXCEPT !.allocated = @ \cup {w.m_OutputWindowID}], d, w.m_OutputWindowID)

AllocRTVOp(w, d) ==
  Result([w EXCEPT !.m_OutputWindowID = NextWindowID(@),
                   !.allocated = @ \cup {w.m_OutputWindowID}],
         d, w.m_OutputWindowID)

FreeRTVOp(w, d, handle) == Result(w, d, 0)

(***************************************************************************)
(* FlipOutputWindow, statement by statement                                *)
(***************************************************************************)
\* outw.bb[i]
BB(i) == IF i = 0 THEN "bb0" ELSE "bb1"

\* a recorded command: the resources it names, and for a barrier the
\* StateBefore and StateAfter of each
Cmd(cmd, res, from, to) == [cmd |-> cmd, res |-> res, from |-> from, to |-> to]

\* the lists recorded earlier and still pending on the device
PendingCmds(d) == [i \in 1 .. Len(d) |-> Cmd(d[i], <<>>, <<>>, <<>>)]

\* the surface, the list being recorded, the closed lists, the commands
\* submitted to the queue, the commands the device has completed, and the
\* presentations requested
FlipStart(outw, d) ==
  [outw |-> outw, list |-> <<>>, closed |-> PendingCmds(d), queue |-> <<>>,
   done |-> <<>>, presents |-> <<>>]

\* barriers[0] on outw.col, barriers[1] on outw.bb[outw.bbIdx]
FlipBarriers(outw) ==
  Cmd("ResourceBarrier", <<"col", BB(outw.bbIdx)>>,
      <<"RENDER_TARGET", "PRESENT">>, <<"COPY_SOURCE", "COPY_DEST">>)

\* std::swap(StateBefore, StateAfter) on both barriers
SwapBarriers_none(b) == b

SwapBarriers(b) == [b EXCEPT !.from = b.to, !.to = b.from]

RecordCmd(m, c) == [m EXCEPT !.list = Append(@, c)]

CloseList(m) == [m EXCEPT !.closed = @ \o m.list, !.list = <<>>]

\* m_WrappedDevice->ExecuteLists(): the closed lists go to the queue
ExecuteLists_noSubmit(m) == m

ExecuteLists(m) == [m EXCEPT !.queue = @ \o m.closed, !.closed = <<>>]

\* m_WrappedDevice->FlushLists(): returns when the queue has completed
FlushLists_noWait(m) == m

FlushLists(m) == [m EXCEPT !.done = @ \o m.queue, !.queue = <<>>]

\* outw.swap->Present(0, 0), with what the device had completed by then
Present(m) ==
  [m EXCEPT !.presents = Append(@, [bbIdx |-> m.outw.bbIdx, completed |-> Len(m.done)])]

\* outw.bbIdx++; outw.bbIdx %= 2;
AdvanceBackBuffer(m) == [m EXCEPT !.outw.bbIdx = (@ + 1) % 2]

FlipSteps(outw, d) ==
  LET b  == FlipBarriers(outw)
      m1 == RecordCmd(FlipStart(outw, d), b)
      m2 == RecordCmd(m1, Cmd("CopyResource", <<b.res[2], b.res[1]>>, <<>>, <<>>))
      m3 == RecordCmd(m2, SwapBarriers(b))
      m4 == CloseList(m3)
      m5 == ExecuteLists(m4)
      m6 == FlushLists(m5)
      m7 == Present(m6)
  IN  AdvanceBackBuffer(m7)

(***************************************************************************)
(* RenderTexture: the range constants                                      *)
(***************************************************************************)
\* a float: finite (v counts units of 0.00001f), the finite reciprocal of v
\* units, an infinity or a NaN
Fin(v) == [k |-> "fin", v |-> v]

Recip(v) == [k |-> "recip", v |-> v]

PInf == [k |-> "pinf", v |-> 0]

NInf == [k |-> "ninf", v |-> 0]

NaN == [k |-> "nan", v |-> 0]

\* the floats given as rangemin and rangemax
Floats == {Fin(v) : v \in -1 .. MaxFloat} \cup {PInf, NInf, NaN}

FLT_MAX == Fin(MaxFloat)

\* from this magnitude on the spacing of floats exceeds 0.00001f
Absorbing == MaxFloat - 1

Abs(v) == IF v < 0 THEN -v ELSE v

Ord(a) == IF a.k = "pinf" THEN MaxFloat + 1 ELSE IF a.k = "ninf" THEN -MaxFloat - 1 ELSE a.v

\* a <= b, false when either is a NaN
FLessEq(a, b) == a.k # "nan" /\ b.k # "nan" /\ Ord(a) <= Ord(b)

Rounded(v) == IF v > MaxFloat THEN PInf ELSE IF v < -MaxFloat THEN NInf ELSE Fin(v)

\* a += 0.00001f
Nudged(a) ==
  IF a.k # "fin" THEN a
  ELSE IF Abs(a.v) >= Absorbing THEN a ELSE Fin(a.v + 1)

\* a - b
FSub(a, b) ==
  CASE a.k = "nan" \/ b.k = "nan" -> NaN
    [] a.k = "pinf" -> IF b.k = "pinf" THEN NaN ELSE PInf
    [] a.k = "ninf" -> IF b.k = "ninf" THEN NaN ELSE NInf
    [] b.k = "pinf" -> NInf
    [] b.k = "ninf" -> PInf
    [] OTHER -> Rounded(a.v - b.v)

\* 1.0f / d
FInv(d) ==
  CASE d.k = "nan" -> NaN
    [] d.k \in {"pinf", "ninf"} -> Fin(0)
    [] d.v = 0 -> PInf
    [] OTHER -> Recip(d.v)

\* _isnan(x)
IsNaN(x) == x.k = "nan"

\* _finite(x)
IsFinite_always(x) == TRUE

IsFinite(x) == x.k \in {"fin", "recip"}

\* if(cfg.rangemax <= cfg.rangemin) cfg.rangemax += 0.00001f;
RangeMax(rangemin, rangemax) ==
  IF FLessEq(rangemax, rangemin) THEN Nudged(rangemax) ELSE rangemax

\* cfg.rangemax - cfg.rangemin
RangeWidth(rangemin, rangemax) == FSub(RangeMax(rangemin, rangemax), rangemin)

\* 1.0f / (cfg.rangemax - cfg.rangemin)
RangeQuotient(rangemin, rangemax) == FInv(RangeWidth(rangemin, rangemax))

\* pixelData.InverseRangeSize
InverseRangeSize(rangemin, rangemax) ==
  LET q == RangeQuotient(rangemin, rangemax)
  IN  IF IsNaN(q) \/ ~IsFinite(q) THEN FLT_MAX ELSE q

(***************************************************************************)
(* RenderTexture: the displayed resource                                   *)
(***************************************************************************)
ResStates == {"COMMON", "RENDER_TARGET", "PIXEL_SHADER_RESOURCE"}

Formats == {"UNKNOWN", "R8G8B8A8_UNORM"}

Overlays == {"None", "NaN", "Clipping"}

TexConfigs == [rangemin : Floats, rangemax : Floats, overlay : Overlays]

\* if(resourceDesc.Format == DXGI_FORMAT_UNKNOWN) return false;
FormatKnown_always(t) == TRUE

FormatKnown(t) == t.format # "UNKNOWN"

\* pixelData.OutputDisplayFormat |= ...
OverlayFlags(overlay) ==
  CASE overlay = "NaN" -> {"TEXDISPLAY_NANS"}
    [] overlay = "Clipping" -> {"TEXDISPLAY_CLIPPING"}
    [] OTHER -> {}

\* one barrier for each subresource, from the state it is in to
\* PIXEL_SHADER_RESOURCE
TexBarriers(states) ==
  Cmd("ResourceBarrier", [i \in DOMAIN states |-> i], states,
      [i \in DOMAIN states |-> "PIXEL_SHADER_RESOURCE"])

\* the device runs a command: a transition moves each subresource named to
\* StateAfter, and leaves it undefined when it was not in StateBefore
RunCmd(states, c) ==
  IF c.cmd # "ResourceBarrier"
  THEN states
  ELSE [i \in DOMAIN states |->
          IF i \notin DOMAIN c.res THEN states[i]
          ELSE IF states[i] = c.from[i] THEN c.to[i] ELSE "undefined"]

RECURSIVE RunCmds(_, _)
RunCmds(states, cmds) ==
  IF cmds = <<>> THEN states ELSE RunCmds(RunCmd(states, Head(cmds)), Tail(cmds))

NoFloat == [k |-> "none", v |-> 0]

\* what a RenderTexture call did: n flips with every call
CallRecord(t, cfg, ret, done) ==
  [n |-> 1 - t.last.n, ret |-> ret,
   degenerate |-> FLessEq(cfg.rangemax, cfg.rangemin),
   width |-> IF ret THEN RangeWidth(cfg.rangemin, cfg.rangemax) ELSE NoFloat,
   quotient |-> IF ret THEN RangeQuotient(cfg.rangemin, cfg.rangemax) ELSE NoFloat,
   inverse |-> IF ret THEN InverseRangeSize(cfg.rangemin, cfg.rangemax) ELSE NoFloat,
   flags |-> IF ret THEN OverlayFlags(cfg.overlay) ELSE {},
   srv |-> ret,
   cbufs |-> IF ret THEN {"m_GenericVSCbuffer", "m_GenericPSCbuffer"} ELSE {},
   lists |-> IF ret THEN 1 ELSE 0,
   cmds |-> [i \in 1 .. Len(done) |-> done[i].cmd]]

\* RenderTexture on the displayed resource
RenderTextureTex(t, cfg) ==
  IF ~FormatKnown(t)
  THEN [t EXCEPT !.last = CallRecord(t, cfg, FALSE, <<>>)]
  ELSE LET b  == TexBarriers(t.states)
           m0 == [list |-> <<>>, closed |-> <<>>, queue |-> <<>>, done |-> <<>>]
           m1 == RecordCmd(m0, b)
           m2 == RecordCmd(m1, Cmd("DrawInstanced", <<>>, <<>>, <<>>))
           m3 == RecordCmd(m2, SwapBarriers(b))
           m  == FlushLists(ExecuteLists(CloseList(m3)))
       IN  [t EXCEPT !.states = RunCmds(@, m.done),
                     !.last = CallRecord(t, cfg, TRUE, m.done)]

NoTexCall ==
  [n |-> 0, ret |-> FALSE, degenerate |-> FALSE, width |-> NoFloat, quotient |-> NoFloat,
   inverse |-> NoFloat, flags |-> {}, srv |-> FALSE, cbufs |-> {}, lists |-> 0,
   cmds |-> <<>>]

(***************************************************************************)
(* CheckResizeOutputWindow, statement by statement                         *)
(***************************************************************************)
\* the resources of a surface: "bb0", "bb1", "col", "depth"
GetRes(outw, name) ==
  CASE name = "bb0" -> outw.bb[1]
    [] name = "bb1" -> outw.bb[2]
    [] name = "col" -> outw.col
    [] OTHER -> outw.depth

SetRes(outw, name, r) ==
  CASE name = "bb0" -> [outw EXCEPT !.bb[1] = r]
    [] name = "bb1" -> [outw EXCEPT !.bb[2] = r]
    [] name = "col" -> [outw EXCEPT !.col = r]
    [] OTHER -> [outw EXCEPT !.depth = r]

\* what is noted of a statement: the resource, its size, and how many
\* commands the device had not completed at that time
Event(m, ev, name, r) ==
  [ev |-> ev, res |-> name, w |-> r.w, h |-> r.h,
   unfinished |-> Len(m.closed) + Len(m.queue)]

Noted(m, e) == [m EXCEPT !.log = Append(@, e)]

\* SAFE_RELEASE(x): nothing happens when x is NULL
SafeRelease(m, name) ==
  IF GetRes(m.outw, name).null
  THEN m
  ELSE [Noted(m, Event(m, "Release", name, GetRes(m.outw, name))) EXCEPT
          !.outw = SetRes(@, name, NullRes)]

\* a resource is created or acquired
Obtained(m, ev, name, r) ==
  [Noted(m, Event(m, ev, name, r)) EXCEPT !.outw = SetRes(@, name, r)]

\* OutputWindow::MakeRTV, OutputWindow::MakeDSV
MakeTargetSteps_keepsOld(m, name, state, ok) ==
  IF ok
  THEN Obtained(m, "Create", name, Res(m.outw.bb[1].w, m.outw.bb[1].h, state))
  ELSE m

MakeTargetSteps(m, name, state, ok) ==
  LET m1 == SafeRelease(m, name)
  IN  IF ok
      THEN Obtained(m1, "Create", name, Res(m1.outw.bb[1].w, m1.outw.bb[1].h, state))
      ELSE m1

ResizeStart(outw, d) ==
  [outw |-> outw, closed |-> PendingCmds(d), queue |-> <<>>, done |-> <<>>,
   log |-> <<>>]

\* the body of if(w != outw.width || h != outw.height)
ResizeSteps(outw0, d, w, h, resizeOK, rtvOK, dsvOK) ==
  LET m0 == ResizeStart(StoreSize(outw0, w, h), d)
      m1 == FlushLists(ExecuteLists(m0))
      m2 == SafeRelease(m1, "bb0")
      m3 == SafeRelease(m2, "bb1")
      m4 == Noted(m3, Event(m3, IF resizeOK THEN "ResizeBuffers" ELSE "ResizeBuffersFailed",
                            "swap", Res(w, h, "PRESENT")))
      m5 == Obtained(m4, "GetBuffer", "bb0", Res(w, h, "PRESENT"))
      m6 == Obtained(m5, "GetBuffer", "bb1", Res(w, h, "PRESENT"))
      m7 == [m6 EXCEPT !.outw.bbIdx = 0]
  IN  IF ~(m1.outw.width > 0 /\ m1.outw.height > 0) THEN m1
      ELSE IF ~resizeOK THEN m4
      ELSE IF ~m7.outw.depth.null
           THEN MakeTargetSteps(MakeTargetSteps(m7, "col", "RENDER_TARGET", rtvOK),
                                "depth", "DEPTH_WRITE", dsvOK)
           ELSE MakeTargetSteps(m7, "col", "RENDER_TARGET", rtvOK)

\* DestroyOutputWindow past the early return: the releases, in order
DestroySteps(outw, d) ==
  LET m0 == ResizeStart(outw, d)
      m1 == SafeRelease(m0, "bb0")
      m2 == SafeRelease(m1, "bb1")
      m3 == SafeRelease(m2, "col")
  IN  SafeRelease(m3, "depth")

(***************************************************************************)
(* Actions of the output windows                                           *)
(***************************************************************************)
NoCall == [op |-> "none", id |-> 0, ret |-> 0, outW |-> -1, outH |-> -1]

\* the step an operation takes; call keeps the call when the operation is watched
Does(op, id, r) ==
  /\ win' = r.win
  /\ dev' = r.dev
  /\ call' = IF op \in watch
             THEN [op |-> op, id |-> id, ret |-> r.ret, outW |-> r.outW, outH |-> r.outH]
             ELSE NoCall
  /\ UNCHANGED <<wnds, watch, gfxVars>>

MakeOutputWindow ==
  \E depth \in BOOLEAN, swapOK \in BOOLEAN, rtvOK \in BOOLEAN, dsvOK \in BOOLEAN :
    /\ win.m_OutputWindowID <= win.limit
    /\ (~swapOK) => (rtvOK /\ dsvOK /\ depth)
    /\ (~depth) => dsvOK
    /\ Does("MakeOutputWindow", 0,
            MakeOutputWindowOp(win, dev, wnds, depth, swapOK, rtvOK, dsvOK))

DestroyOutputWindow ==
  \E id \in IDs \cup DOMAIN win.m_OutputWindows : Does("DestroyOutputWindow", id, DestroyOutputWindowOp(win, dev, id))

CheckResizeOutputWindow ==
  \E id \in IDs, resizeOK \in BOOLEAN, rtvOK \in BOOLEAN, dsvOK \in BOOLEAN :
    LET r == CheckResizeOutputWindowOp(win, dev, wnds, id, resizeOK, rtvOK, dsvOK)
        full == r.ret = 1 /\ wnds[1] > 0 /\ wnds[2] > 0
    IN  /\ (~full) => resizeOK
        /\ (~(full /\ resizeOK)) => (rtvOK /\ dsvOK)
        /\ (full /\ win.m_OutputWindows[id].depth.null) => dsvOK
        /\ Does("CheckResizeOutputWindow", id, r)

GetOutputWindowDimensions ==
  \E id \in IDs :
    Does("GetOutputWindowDimensions", id, GetOutputWindowDimensionsOp(win, dev, id))

ClearOutputWindowColour ==
  \E id \in IDs :
    /\ Len(dev) < MaxPending
    /\ Does("ClearOutputWindowColour", id, ClearOutputWindowColourOp(win, dev, id))

ClearOutputWindowDepth ==
  \E id \in IDs :
    /\ Len(dev) < MaxPending
    /\ Does("ClearOutputWindowDepth", id, ClearOutputWindowDepthOp(win, dev, id))

BindOutputWindow ==
  \E id \in IDs : Does("BindOutputWindow", id, BindOutputWindowOp(win, dev, id))

FlipOutputWindow ==
  \E id \in IDs : Does("FlipOutputWindow", id, FlipOutputWindowOp(win, dev, id))

AllocRTV ==
  /\ win.m_OutputWindowID <= win.limit
  /\ Does("AllocRTV", 0, AllocRTVOp(win, dev))

FreeRTV ==
  \E handle \in IDs : Does("FreeRTV", handle, FreeRTVOp(win, dev, handle))

RenderCheckerboard == Does("RenderCheckerboard", 0, RenderCheckerboardOp(win, dev))

\* with no texture followed (tex = <<>>) the format of the resource is an
\* input of the call
RenderTexture ==
  IF tex = <<>>
  THEN \E formatKnown \in BOOLEAN :
         Does("RenderTexture", 0, RenderTextureOp(win, dev, formatKnown))
  ELSE \E cfg \in TexConfigs :
         LET r == RenderTextureOp(win, dev, FormatKnown(tex))
         IN  /\ win' = r.win
             /\ dev' = r.dev
             /\ call' = NoCall
             /\ tex' = RenderTextureTex(tex, cfg)
             /\ UNCHANGED <<wnds, watch, font>>

\* the replayed application leaves a subresource in another state
ResourceTransitioned ==
  /\ \E i \in DOMAIN tex.states, st \in ResStates :
       tex' = [tex EXCEPT !.states[i] = st]
  /\ UNCHANGED <<winVars, font>>

\* the user resizes or minimises the native window
WindowResized ==
  \E w \in Dims, h \in Dims :
    /\ <<w, h>> # wnds
    /\ wnds' = <<w, h>>
    /\ call' = NoCall
    /\ UNCHANGED <<win, dev, watch, gfxVars>>

\* the constructor sets m_OutputWindowID and m_width, m_height;
\* m_CurrentOutputWindow is not set by it and holds whatever the memory held
\* limit is the value of m_OutputWindowID up to which slots are handed out
NewManager(cur) ==
  [m_OutputWindows |-> [k \in {} |-> ZeroWindow],
   m_OutputWindowID |-> 1,
   m_CurrentOutputWindow |-> cur,
   m_width |-> 1, m_height |-> 1,
   returned |-> <<>>, destroyed |-> {}, allocated |-> {}, limit |-> MaxID]

InitWin(garbage, sizes, watched) ==
  /\ \E cur \in garbage : win = NewManager(cur)
  /\ wnds \in sizes
  /\ dev = <<>>
  /\ call = NoCall
  /\ watch = watched

CacheQuiet ==
  /\ disk = NoFile
  /\ mgr = CtorEnd(CtorLoad(NoFile))
  /\ cold = Idle
  /\ coldDisk = NoFile
  /\ session = 1

\* every operation of the output windows, on a native window that keeps its size
NextWin ==
  \/ MakeOutputWindow /\ UNCHANGED cacheVars
  \/ DestroyOutputWindow /\ UNCHANGED cacheVars
  \/ CheckResizeOutputWindow /\ UNCHANGED cacheVars
  \/ GetOutputWindowDimensions /\ UNCHANGED cacheVars
  \/ ClearOutputWindowColour /\ UNCHANGED cacheVars
  \/ ClearOutputWindowDepth /\ UNCHANGED cacheVars
  \/ BindOutputWindow /\ UNCHANGED cacheVars
  \/ FlipOutputWindow /\ UNCHANGED cacheVars
  \/ AllocRTV /\ UNCHANGED cacheVars
  \/ FreeRTV /\ UNCHANGED cacheVars
  \/ RenderCheckerboard /\ UNCHANGED cacheVars
  \/ RenderTexture /\ UNCHANGED cacheVars

RECURSIVE AllocatedTimes(_, _)
\* the manager after n calls of AllocRTV
AllocatedTimes(w, n) ==
  IF n = 0 THEN w ELSE AllocRTVOp(AllocatedTimes(w, n - 1), <<>>).win

\* desc.NumDescriptors of the heaps the constructor creates
RTVHeapSize == 1024

DSVHeapSize == 16

\* a new manager, or one that has handed out descriptors with AllocRTV until
\* MaxID slots are left below the capacity of the DSV heap
InitHeap ==
  /\ \E n \in {0, DSVHeapSize - MaxID} :
       win = [AllocatedTimes(NewManager(0), n) EXCEPT !.limit = n + MaxID]
  /\ wnds = <<1, 1>>
  /\ dev = <<>>
  /\ call = NoCall
  /\ watch = {"MakeOutputWindow", "AllocRTV"}
  /\ CacheQuiet /\ GfxQuiet

NextHeap ==
  \/ MakeOutputWindow /\ UNCHANGED cacheVars
  \/ DestroyOutputWindow /\ UNCHANGED cacheVars
  \/ AllocRTV /\ UNCHANGED cacheVars

\* surfaces made and destroyed and descriptors allocated
SpecHeap == InitHeap /\ [][NextHeap]_vars

InitWinOnly == InitWin(IDs, {<<1, 1>>}, {"MakeOutputWindow", "AllocRTV"}) /\ CacheQuiet /\ GfxQuiet

SpecWin == InitWinOnly /\ [][NextWin]_vars

\* a texture of any format with its subresources in any states
InitTex ==
  /\ InitWin(IDs, {<<1, 1>>}, {})
  /\ CacheQuiet
  /\ font = <<>>
  /\ \E format \in Formats, states \in [1 .. MaxSub -> ResStates] :
       tex = [format |-> format, states |-> states, last |-> NoTexCall]

NextTex ==
  \/ RenderTexture /\ UNCHANGED cacheVars
  \/ ResourceTransitioned /\ UNCHANGED cacheVars

\* RenderTexture on a texture the application keeps using
SpecTex == InitTex /\ [][NextTex]_vars

Live == { k \in DOMAIN win.m_OutputWindows : win.m_OutputWindows[k].swap }

\* one surface at a time is made on a window with a client area, then
\* resized, flipped and destroyed while the user resizes or minimises the window
NextResize ==
  \/ /\ Live = {}
     /\ wnds[1] > 0 /\ wnds[2] > 0
     /\ MakeOutputWindow
     /\ UNCHANGED cacheVars
  \/ DestroyOutputWindow /\ UNCHANGED cacheVars
  \/ CheckResizeOutputWindow /\ UNCHANGED cacheVars
  \/ FlipOutputWindow /\ UNCHANGED cacheVars
  \/ WindowResized /\ UNCHANGED cacheVars

InitResize == InitWin({0}, Dims \X Dims, {"CheckResizeOutputWindow"}) /\ CacheQuiet /\ GfxQuiet

SpecResize == InitResize /\ [][NextResize]_vars

\* the one surface there is: made, cleared, resized and destroyed, so that
\* every list the device holds was recorded against it
NextDestroy ==
  \/ /\ win.returned = <<>>
     /\ wnds[1] > 0 /\ wnds[2] > 0
     /\ MakeOutputWindow
     /\ UNCHANGED cacheVars
  \/ ClearOutputWindowColour /\ UNCHANGED cacheVars
  \/ ClearOutputWindowDepth /\ UNCHANGED cacheVars
  \/ CheckResizeOutputWindow /\ UNCHANGED cacheVars
  \/ DestroyOutputWindow /\ UNCHANGED cacheVars
  \/ WindowResized /\ UNCHANGED cacheVars

InitDestroy ==
  InitWin({0}, Dims \X Dims, {"DestroyOutputWindow"}) /\ CacheQuiet /\ GfxQuiet

SpecDestroy == InitDestroy /\ [][NextDestroy]_vars

NextBind ==
  \/ /\ Live = {}
     /\ wnds[1] > 0 /\ wnds[2] > 0
     /\ MakeOutputWindow
     /\ UNCHANGED cacheVars
  \/ BindOutputWindow /\ UNCHANGED cacheVars
  \/ CheckResizeOutputWindow /\ UNCHANGED cacheVars
  \/ RenderTexture /\ UNCHANGED cacheVars
  \/ WindowResized /\ UNCHANGED cacheVars

InitBind == InitWin({0}, Dims \X Dims, {"RenderTexture"}) /\ CacheQuiet /\ GfxQuiet

\* a surface is bound, resized and drawn to
SpecBind == InitBind /\ [][NextBind]_vars

\* one surface is made, then cleared, flipped and resized while the user
\* resizes or minimises the window
NextFrame ==
  \/ /\ win.returned = <<>>
     /\ wnds[1] > 0 /\ wnds[2] > 0
     /\ MakeOutputWindow
     /\ UNCHANGED cacheVars
  \/ CheckResizeOutputWindow /\ UNCHANGED cacheVars
  \/ FlipOutputWindow /\ UNCHANGED cacheVars
  \/ ClearOutputWindowColour /\ UNCHANGED cacheVars
  \/ WindowResized /\ UNCHANGED cacheVars

InitFrame ==
  InitWin({0}, Dims \X Dims, {"CheckResizeOutputWindow"}) /\ CacheQuiet /\ GfxQuiet

SpecFrame == InitFrame /\ [][NextFrame]_vars

(***************************************************************************)
(* Properties of the output windows                                        *)
(***************************************************************************)
Table == win.m_OutputWindows

Returned == { win.returned[i] : i \in 1 .. Len(win.returned) }

\* the step just taken was CheckResizeOutputWindow(id) on a live surface
CheckedResize(id) ==
  /\ id \in Live
  /\ call'.op = "CheckResizeOutputWindow"
  /\ call'.id = id

\* C6 as stated: after every CheckResizeOutputWindow call on a live surface
\* its width and height are the window's client size and its colour target
\* has that same size, whatever the sizes were and whether or not
\* ResizeBuffers succeeded.
C6_ColourTargetAlwaysMatches ==
  [][\A id \in IDs :
       CheckedResize(id) =>
         LET outw == win'.m_OutputWindows[id]
         IN  /\ outw.width = wnds[1] /\ outw.height = wnds[2]
             /\ ~outw.col.null => (outw.col.w = outw.width /\ outw.col.h = outw.height)]_vars

\* C6 amended: after every CheckResizeOutputWindow call on a live surface its
\* width and height are the window's client size; the colour target has that
\* size after a call that saw a new size with no zero dimension and whose
\* ResizeBuffers and colour target creation succeeded; a call that saw a zero
\* dimension or whose ResizeBuffers failed leaves the colour target as it
\* was, and a call that saw no new size changes nothing of the surface.
C6_ResizeTracksClientSize ==
  [][\A id \in IDs :
       CheckedResize(id) =>
         LET old == win.m_OutputWindows[id]
             outw == win'.m_OutputWindows[id]
             zero == wnds[1] = 0 \/ wnds[2] = 0
         IN  /\ outw.width = wnds[1] /\ outw.height = wnds[2]
             /\ (call'.ret = 1 /\ ~zero /\ ~outw.bb[1].null /\ ~outw.col.null)
                  => (outw.col.w = outw.width /\ outw.col.h = outw.height)
             /\ (call'.ret = 1 /\ (zero \/ outw.bb[1].null)) => outw.col = old.col
             /\ call'.ret = 0 => outw = old]_vars

\* a surface whose window shrank and grew has been resized with success: its
\* colour target follows a size it was not made with
C6_Witness ==
  /\ call.op = "CheckResizeOutputWindow" /\ call.ret = 1
  /\ call.id \in Live
  /\ LET outw == Table[call.id]
     IN  /\ ~outw.col.null /\ ~outw.bb[1].null
         /\ outw.col.w = MaxDim /\ outw.col.h = 1
         /\ outw.width = MaxDim /\ outw.height = 1
         /\ outw.bbIdx = 0

\* a surface whose window has a zero dimension: the colour target keeps the
\* size of the last successful resize
C6_WitnessZero ==
  /\ call.op = "CheckResizeOutputWindow" /\ call.ret = 1
  /\ call.id \in Live
  /\ LET outw == Table[call.id]
     IN  /\ outw.width = 0
         /\ ~outw.col.null /\ outw.col.w > 0 /\ outw.col.h > 0

NeverReturned(id) == id = 0 \/ id \notin Returned

\* C7: in every reachable state each of the seven calls, given handle 0 or a
\* handle MakeOutputWindow never returned, leaves the manager, the device's
\* pending work and the caller's output variables as they were.
C7_UnknownHandleNoOp ==
  \A id \in IDs, op \in SevenOps :
    NeverReturned(id) => HandleOp(op, win, dev, wnds, id) = Result(win, dev, 0)

\* C8: every handle a successful MakeOutputWindow returned is at least 1 and
\* greater than every handle returned before it, under every interleaving
\* with failed creations, DestroyOutputWindow, AllocRTV and FreeRTV.
C8_HandlesStrictlyIncrease ==
  /\ \A i \in 1 .. Len(win.returned) : win.returned[i] >= 1
  /\ \A i \in 1 .. Len(win.returned), j \in 1 .. Len(win.returned) :
       i < j => win.returned[i] < win.returned[j]
  /\ (call.op = "MakeOutputWindow" /\ call.ret # 0) =>
       (Len(win.returned) > 0 /\ call.ret = win.returned[Len(win.returned)])

\* two surfaces were created, the first was destroyed before the second
C8_Witness ==
  /\ Len(win.returned) = 2
  /\ win.returned[1] \in win.destroyed
  /\ call.op = "MakeOutputWindow" /\ call.ret = 2

\* a descriptor was allocated before the surface was created
C8_WitnessAlloc ==
  /\ win.allocated = {1}
  /\ win.returned = <<2>>

\* C9: a MakeOutputWindow whose swap chain creation fails returns 0 and
\* leaves the surface table, the handle counter and the bound surface as
\* they were; a successful MakeOutputWindow right after it returns the
\* handle the counter held at the failed call.
C9_FailedCreateChangesNothing ==
  [][/\ (call'.op = "MakeOutputWindow" /\ call'.ret = 0) =>
          /\ win'.m_OutputWindows = win.m_OutputWindows
          /\ win'.m_OutputWindowID = win.m_OutputWindowID
          /\ win'.m_CurrentOutputWindow = win.m_CurrentOutputWindow
          /\ win'.returned = win.returned
     /\ (/\ call.op = "MakeOutputWindow" /\ call.ret = 0
         /\ call'.op = "MakeOutputWindow" /\ call'.ret # 0) =>
          /\ call'.ret = win.m_OutputWindowID
          /\ call'.ret \in DOMAIN win'.m_OutputWindows]_vars

\* a creation failed while a surface was live and bound
C9_Witness ==
  /\ call.op = "MakeOutputWindow" /\ call.ret = 0
  /\ win.m_CurrentOutputWindow \in DOMAIN Table
  /\ Table[win.m_CurrentOutputWindow].swap
  /\ win.m_OutputWindowID = 2

\* C10: in every reachable state the keys of the surface table are the
\* handles successful MakeOutputWindow calls returned less the handles given
\* to DestroyOutputWindow; a destroyed handle is never a key again and the
\* render operations add no key.
C10_LiveSetExact ==
  /\ DOMAIN Table = Returned \ win.destroyed
  /\ win.destroyed \cap DOMAIN Table = {}

(***************************************************************************)
(* Further properties of the shader cache                                  *)
(***************************************************************************)
\* the step is a GetShaderBlob call that missed and compiled with success
CompiledMiss ==
  /\ Running(mgr) /\ Running(mgr')
  /\ mgr'.calls = mgr.calls + 1
  /\ mgr'.ret.compiled /\ ~mgr'.ret.failed

\* C20: caching is enabled exactly while the constructor runs; a successful
\* compile on a miss is stored under its hash and dirties the cache when
\* caching is enabled, and otherwise leaves the map and the dirty flag as
\* they were; the bytecode is returned either way.
C20_CachingPhaseGated ==
  [][CompiledMiss =>
       /\ mgr.m_CacheShaders <=> mgr.phase = "ctor"
       /\ mgr'.ret.srcblob # NULL
       /\ mgr'.ret.bytes = mgr'.heap[mgr'.ret.srcblob].bytes
       /\ mgr.phase = "ctor" =>
            /\ mgr'.ret.hash \in DOMAIN mgr'.m_ShaderCache
            /\ mgr'.m_ShaderCache[mgr'.ret.hash] = mgr'.ret.srcblob
            /\ mgr'.m_ShaderCacheDirty
       /\ mgr.phase = "live" =>
            /\ mgr'.m_ShaderCache = mgr.m_ShaderCache
            /\ mgr'.m_ShaderCacheDirty = mgr.m_ShaderCacheDirty]_vars

\* after construction, on a cache loaded clean, a miss compiled with success
\* and was not stored
C20_Witness ==
  /\ mgr.phase = "live"
  /\ mgr.loaded /\ ~mgr.m_ShaderCacheDirty
  /\ mgr.ret.valid /\ mgr.ret.compiled /\ ~mgr.ret.failed
  /\ mgr.ret.srcblob # NULL
  /\ mgr.ret.hash \notin DOMAIN mgr.m_ShaderCache

(***************************************************************************)
(* Further properties of the output windows                                *)
(***************************************************************************)
\* the slots handed out so far, to surfaces and to AllocRTV callers
SlotsHandedOut == Returned \cup win.allocated

CharAlign == 16

FONT_MAX_CHARS == CharAlign * FontMaxBlocks

\* the capacity of m_Font.CharBuffer in characters, 32 draws of full length
FONT_BUFFER_CHARS == 32 * FONT_MAX_CHARS

AlignUp(x, a) == ((x + a - 1) \div a) * a

\* strlen(text) of the lines drawn: none, a full block, the longest allowed
TextLens == {0, CharAlign, FONT_MAX_CHARS - 1}

\* if(m_Font.CharOffset + chars >= FONT_BUFFER_CHARS)
WrapsAround_never(cursor, chars) == FALSE

WrapsAround_exceeds(cursor, chars) == cursor + chars > FONT_BUFFER_CHARS

WrapsAround(cursor, chars) == cursor + chars >= FONT_BUFFER_CHARS

\* size_t charOffset = m_Font.CharOffset; if(...) charOffset = 0;
WrapOffset_stays(cursor, chars) == cursor

WrapOffset(cursor, chars) == IF WrapsAround(cursor, chars) THEN 0 ELSE cursor

\* m_Font.CharOffset = AlignUp(charOffset + chars, 256 / sizeof(Vec4f))
NextCharOffset_unaligned(charOffset, chars) == charOffset + chars

NextCharOffset(charOffset, chars) == AlignUp(charOffset + chars, CharAlign)

\* the last reservation: the cursor it found, the offset it returned
NoResv == [valid |-> FALSE, from |-> 0, offset |-> 0, chars |-> 0, mapped |-> FALSE]

\* what is kept of the reservations made so far when track = "total": the
\* characters reserved (counted up to one past the capacity), the largest
\* offset returned, and whether an offset below an earlier one was returned
TrackTotal(f, charOffset, chars) ==
  IF f.track # "total" THEN f
  ELSE [f EXCEPT !.total = IF @ + chars > FONT_BUFFER_CHARS
                           THEN FONT_BUFFER_CHARS + 1 ELSE @ + chars,
                 !.maxOffset = IF f.wrapped \/ charOffset < @ THEN @ ELSE charOffset,
                 !.wrapped = @ \/ charOffset < f.maxOffset]

\* what is kept of the regions in flight when track = "pending": pend holds
\* the offset of the first region of each run of regions written since the
\* caller last submitted; overwrote is set when a region is written over one
TrackPending(f, charOffset, chars) ==
  IF f.track # "pending" THEN f
  ELSE [f EXCEPT !.overwrote =
                   @ \/ \E p \in f.pend : charOffset <= p /\ p < charOffset + chars,
                 !.pend = IF @ = {} \/ charOffset = 0 THEN @ \cup {charOffset} ELSE @]

\* RenderTextInternal for a text without a newline
RenderTextInternal(f, chars, mapOK) ==
  IF chars = 0
  THEN f
  ELSE LET charOffset == WrapOffset(f.CharOffset, chars)
           f1 == [TrackTotal(f, charOffset, chars) EXCEPT
                    !.CharOffset = NextCharOffset(charOffset, chars),
                    !.resv = [valid |-> TRUE, from |-> f.CharOffset,
                              offset |-> charOffset, chars |-> chars,
                              mapped |-> mapOK]]
       IN  IF ~mapOK
           THEN \* Map failed: return before anything is written or recorded
                f1
           ELSE \* the glyphs are written, the draw is recorded into the caller's
                \* list, the ring of constant buffers moves on
                [TrackPending(f1, charOffset, chars) EXCEPT
                   !.unsubmitted = TRUE,
                   !.ConstRingIdx = (@ + 1) % FontConstCount]

\* the texts drawn: letters and newlines
Texts == UNION { [1 .. n -> {"a", "\n"}] : n \in 0 .. MaxText }

\* tmpBuf after vsnprintf: the characters and the terminating NUL
Buffer(text) == Append(text, "NUL")

\* text + strlen(text): the first NUL at or after start
StrEnd(buf, start) ==
  CHOOSE e \in start .. Len(buf) :
    /\ buf[e] = "NUL"
    /\ \A i \in start .. e - 1 : buf[i] # "NUL"

\* strchr(text, '\n'): the first newline of the string at start, 0 for NULL
StrChr(buf, start) ==
  LET found == { i \in start .. StrEnd(buf, start) - 1 : buf[i] = "\n" }
  IN  IF found = {} THEN 0 ELSE CHOOSE i \in found : \A j \in found : i <= j

\* no RenderText call yet
NoText == [valid |-> FALSE, text |-> <<>>, y |-> 0, failAt |-> 0, buf |-> <<>>,
           draws |-> <<>>, maps |-> 0]

\* RenderText starts: the font, the buffer, the draws recorded into the
\* list and the Map calls made so far; the failAt-th Map call fails
TextStart(f, text, failAt) ==
  [f |-> f, buf |-> Buffer(text), draws |-> <<>>, maps |-> 0, failAt |-> failAt]

\* RenderTextInternal at the line of a string that has no newline
TextLine_blank(m, start, y) ==
  LET chars == StrEnd(m.buf, start) - start
      mapOK == m.maps + 1 # m.failAt
      f1 == RenderTextInternal(m.f, chars, mapOK)
      m1 == [m EXCEPT !.f = f1, !.maps = @ + 1]
  IN  IF mapOK
      THEN [m1 EXCEPT !.draws = Append(@, [y |-> y, instances |-> chars,
                                           offset |-> f1.resv.offset])]
      ELSE m1

TextLine(m, start, y) ==
  LET chars == StrEnd(m.buf, start) - start
      mapOK == m.maps + 1 # m.failAt
      f1 == RenderTextInternal(m.f, chars, mapOK)
      m1 == [m EXCEPT !.f = f1, !.maps = @ + 1]
  IN  IF chars = 0
      THEN m
      ELSE IF mapOK
           THEN [m1 EXCEPT !.draws = Append(@, [y |-> y, instances |-> chars,
                                                offset |-> f1.resv.offset])]
           ELSE m1

RECURSIVE RenderTextSplit(_, _, _)
\* RenderTextInternal(list, x, y, text) with text = buf + start: *t = 0, the
\* line before t, the rest one line lower, *t = '\n'
RenderTextSplit(m, start, y) ==
  LET t == StrChr(m.buf, start)
  IN  IF t # 0
      THEN LET zeroed == [m EXCEPT !.buf[t] = "NUL"]
               first == RenderTextSplit(zeroed, start, y)
               rest == RenderTextSplit(first, t + 1, y + 1)
           IN  [rest EXCEPT !.buf[t] = "\n"]
      ELSE TextLine(m, start, y)

\* RenderText(list, x, y, text): what it leaves in the font, with the call
\* and its outcome kept
RenderTextOp(f, text, y, failAt) ==
  LET m == RenderTextSplit(TextStart(f, text, failAt), 1, y)
  IN  [m.f EXCEPT !.text = [valid |-> TRUE, text |-> text, y |-> y,
                            failAt |-> failAt, buf |-> m.buf,
                            draws |-> m.draws, maps |-> m.maps]]

\* the caller closes its list, ExecuteLists and FlushLists run
Submitted(f) == [f EXCEPT !.unsubmitted = FALSE, !.pend = {}]

RenderTextLine ==
  \E chars \in TextLens, mapOK \in BOOLEAN :
    /\ font' = RenderTextInternal(font, chars, mapOK)
    /\ UNCHANGED tex

CallerSubmits ==
  /\ font.unsubmitted
  /\ font' = Submitted(font)
  /\ UNCHANGED tex

\* FontData is zeroed when it is constructed (d3d12_debug.h)
InitialCharOffset == 0

\* m_Font.ConstRingIdx = 0 in the constructor
FontAt(track, cursor) ==
  [CharOffset |-> cursor, ConstRingIdx |-> 0, resv |-> NoResv,
   unsubmitted |-> FALSE, track |-> track,
   total |-> 0, maxOffset |-> 0, wrapped |-> FALSE,
   pend |-> {}, overwrote |-> FALSE, text |-> NoText]

InitFont(track) ==
  /\ font = FontAt(track, InitialCharOffset)
  /\ tex = <<>>

NextText ==
  \/ RenderTextLine /\ UNCHANGED <<cacheVars, winVars>>
  \/ CallerSubmits /\ UNCHANGED <<cacheVars, winVars>>

RenderText ==
  \E text \in Texts, y \in 0 .. 1, failAt \in 0 .. 2 :
    /\ ~font.text.valid
    /\ font' = RenderTextOp(font, text, y, failAt)
    /\ UNCHANGED tex

NextLines ==
  \/ RenderText /\ UNCHANGED <<cacheVars, winVars>>
  \/ CallerSubmits /\ UNCHANGED <<cacheVars, winVars>>

\* the cursor where the constructor left it, or one block before the end
\* of the buffer, where earlier draws of a full block have taken it
InitLines ==
  /\ \E cursor \in {InitialCharOffset, FONT_BUFFER_CHARS - CharAlign} :
       font = FontAt("none", cursor)
  /\ tex = <<>>
  /\ CacheQuiet /\ WinQuiet

\* texts of several lines drawn
SpecLines == InitLines /\ [][NextLines]_vars

InitRing == InitFont("total") /\ CacheQuiet /\ WinQuiet

\* text draws, the reservations counted
SpecRing == InitRing /\ [][NextText]_vars

InitText == InitFont("pending") /\ CacheQuiet /\ WinQuiet

\* text draws, the regions in flight followed
SpecText == InitText /\ [][NextText]_vars

(***************************************************************************)
(* Properties of the character ring                                        *)
(***************************************************************************)
\* C12: every reservation ends within the buffer, offset + length is at most
\* FONT_BUFFER_CHARS, and the write cursor never exceeds FONT_BUFFER_CHARS,
\* for draws of 1 to FONT_MAX_CHARS - 1 characters.
C12_RingBounds ==
  /\ font.CharOffset <= FONT_BUFFER_CHARS
  /\ font.resv.valid =>
       /\ font.resv.offset >= 0
       /\ font.resv.offset + font.resv.chars <= FONT_BUFFER_CHARS

\* the cursor stands at the very end of the buffer after a reservation
C12_Witness ==
  /\ font.resv.valid
  /\ font.CharOffset = FONT_BUFFER_CHARS
  /\ font.resv.offset + font.resv.chars > FONT_BUFFER_CHARS - CharAlign

\* C13: once the characters reserved sum to more than FONT_BUFFER_CHARS,
\* some reservation has returned an offset below the offset an earlier
\* reservation returned.
C13_WrapOccurs == font.total > FONT_BUFFER_CHARS => font.wrapped

\* more than the capacity has been reserved and the ring has wrapped
C13_Witness ==
  /\ font.total > FONT_BUFFER_CHARS
  /\ font.wrapped
  /\ font.resv.valid /\ font.resv.offset > 0

\* C14: RenderTextInternal never writes glyph indices over a region of the
\* character buffer that an earlier text draw reserved and whose commands
\* are recorded but not yet submitted and completed.
C14_NoInFlightOverwrite == ~font.overwrote

(***************************************************************************)
(* Submission of recorded work                                             *)
(***************************************************************************)
\* a surface that is in the table and has its back buffers and its targets
Usable(id) ==
  /\ ~Unknown(win, id)
  /\ ~win.m_OutputWindows[id].bb[1].null
  /\ ~win.m_OutputWindows[id].col.null
  /\ ~win.m_OutputWindows[id].depth.null

\* C15: when RenderCheckerboard, RenderTexture, ClearOutputWindowColour,
\* ClearOutputWindowDepth or FlipOutputWindow returns, called on a live
\* usable surface, the commands it recorded have been submitted and
\* completed: nothing it recorded is left pending on the device.
C15_NothingLeftPending ==
  /\ RenderCheckerboardOp(win, dev).dev = <<>>
  /\ RenderTextureOp(win, dev, TRUE).dev = <<>>
  /\ \A id \in IDs :
       Usable(id) =>
         /\ FlipOutputWindowOp(win, dev, id).dev = <<>>
         /\ ClearOutputWindowColourOp(win, dev, id).dev = <<>>
         /\ ClearOutputWindowDepthOp(win, dev, id).dev = <<>>

(***************************************************************************)
(* Ordering within FlipOutputWindow                                        *)
(***************************************************************************)
\* C16: in FlipOutputWindow on a usable surface the copy of the colour
\* target into the back buffer is recorded between the two barrier pairs,
\* the second pair undoing the first; the presentation is requested when the
\* device has completed that list; the back buffer index is advanced after
\* the presentation was requested; and the copy goes into the back buffer at
\* the index held before the call.
C16_FlipOrdering ==
  \A id \in IDs :
    Usable(id) =>
      LET outw == Table[id]
          m    == FlipSteps(outw, dev)
          n    == Len(m.done)
          r    == FlipOutputWindowOp(win, dev, id)
      IN  /\ n = Len(dev) + 3
          /\ m.list = <<>> /\ m.closed = <<>> /\ m.queue = <<>>
          /\ m.done[n - 2].cmd = "ResourceBarrier"
          /\ m.done[n - 1].cmd = "CopyResource"
          /\ m.done[n].cmd = "ResourceBarrier"
          /\ m.done[n - 2].res = m.done[n].res
          /\ m.done[n - 2].from = m.done[n].to
          /\ m.done[n - 2].to = m.done[n].from
          /\ m.done[n - 1].res = <<BB(outw.bbIdx), "col">>
          /\ Len(m.presents) = 1
          /\ m.presents[1].completed = n
          /\ m.presents[1].bbIdx = outw.bbIdx
          /\ m.outw.bbIdx = (outw.bbIdx + 1) % 2
          /\ r.win.m_OutputWindows[id] = m.outw
          /\ Len(r.dev) = Len(m.closed) + Len(m.queue)

\* a flip has returned on a usable surface and moved it to back buffer 1
C16_Witness ==
  \E id \in IDs :
    /\ Usable(id)
    /\ Table[id].bbIdx = 1
    /\ dev = <<>>

(***************************************************************************)
(* Properties of RenderTexture                                             *)
(***************************************************************************)
\* the step is a RenderTexture call
RenderTextureStep == tex'.last.n # tex.last.n

\* C11: after a RenderTexture call that returned true, when the list it
\* recorded has executed, every subresource of the displayed resource is in
\* the state it was in before the call, whatever the overlay and whatever
\* the states the subresources started in.
C11_BarrierSymmetry ==
  [][(RenderTextureStep /\ tex'.last.ret) =>
       /\ tex'.states = tex.states
       /\ tex'.last.cmds = <<"ResourceBarrier", "DrawInstanced", "ResourceBarrier">>]_vars

\* a call with the NaN overlay has returned true on a resource whose
\* subresources are in different states, neither the shader-resource state
C11_Witness ==
  /\ tex.last.ret
  /\ tex.last.flags = {"TEXDISPLAY_NANS"}
  /\ tex.states[1] = "RENDER_TARGET"
  /\ tex.states[2] = "COMMON"

\* C18: whenever RenderTexture is called with rangemax <= rangemin and
\* writes the pixel constants, the InverseRangeSize written is finite; a
\* quotient that is infinite or a NaN has been replaced by FLT_MAX.
C18_DegenerateRangeGuard ==
  (tex.last.ret /\ tex.last.degenerate) =>
    /\ tex.last.inverse.k \in {"fin", "recip"}
    /\ tex.last.quotient.k \in {"pinf", "ninf", "nan"} => tex.last.inverse = FLT_MAX
    /\ tex.last.quotient.k \in {"fin", "recip"} => tex.last.inverse = tex.last.quotient

\* rangemax = rangemin so large that the nudge is lost: the quotient was
\* infinite and FLT_MAX has been written
C18_Witness ==
  /\ tex.last.ret /\ tex.last.degenerate
  /\ tex.last.quotient = PInf
  /\ tex.last.inverse = FLT_MAX

\* C19: a RenderTexture call on a resource whose format is
\* DXGI_FORMAT_UNKNOWN returns false; it has issued no draw, obtained no
\* command list, recorded no barrier, written neither generic constant
\* buffer, created no shader-resource view, and changed no subresource state
\* and no entry of the surface table.
C19_UnknownFormatFailsFast ==
  [][(RenderTextureStep /\ tex.format = "UNKNOWN") =>
       /\ ~tex'.last.ret
       /\ tex'.last.cmds = <<>>
       /\ tex'.last.lists = 0
       /\ tex'.last.cbufs = {}
       /\ ~tex'.last.srv
       /\ tex'.states = tex.states
       /\ win' = win
       /\ dev' = dev]_vars

\* a call on a resource of unknown format has returned
C19_Witness ==
  /\ tex.format = "UNKNOWN"
  /\ tex.last.n = 1
  /\ ~tex.last.ret

(***************************************************************************)
(* The wrap rule of the character ring                                      *)
(***************************************************************************)
\* C30 as stated: a reservation returns the cursor it found when cursor +
\* chars does not exceed FONT_BUFFER_CHARS, the case of equality included,
\* and returns 0 exactly when cursor + chars exceeds FONT_BUFFER_CHARS.
C30_WrapWhenExceeds ==
  font.resv.valid =>
    font.resv.offset = IF font.resv.from + font.resv.chars <= FONT_BUFFER_CHARS
                       THEN font.resv.from ELSE 0

\* C30: a reservation returns the cursor it found when cursor + chars is
\* below FONT_BUFFER_CHARS, and returns 0 when cursor + chars reaches or
\* exceeds FONT_BUFFER_CHARS: a text that would end exactly at the end of
\* the buffer is placed at offset 0.
C30_WrapWhenReaches ==
  font.resv.valid =>
    font.resv.offset = IF font.resv.from + font.resv.chars < FONT_BUFFER_CHARS
                       THEN font.resv.from ELSE 0

\* a text that would have ended exactly at the end of the buffer was placed
\* at offset 0
C30_Witness ==
  /\ font.resv.valid
  /\ font.resv.from > 0
  /\ font.resv.from + font.resv.chars = FONT_BUFFER_CHARS
  /\ font.resv.offset = 0

(***************************************************************************)
(* References and residency in the shader cache                            *)
(***************************************************************************)
\* the step is a GetShaderBlob call that handed a blob to the caller
HandedBlob ==
  /\ Running(mgr) /\ Running(mgr')
  /\ mgr'.calls = mgr.calls + 1
  /\ mgr'.ret.srcblob # NULL

HeldBefore(b) == IF b \in DOMAIN mgr.heap THEN mgr.heap[b].held ELSE 0

\* C21: every GetShaderBlob call that returns a blob, on a hit, a cached
\* miss or an uncached miss, hands the caller exactly one new reference to
\* it, and on a hit no diagnostics; the cache holds one reference for each
\* resident entry, so a resident blob's reference count is 1 plus the
\* references handed out and not yet released, and any other blob's count
\* is the references handed out and not yet released.
C21_ReferenceAccounting ==
  [][/\ Running(mgr') =>
          \A b \in DOMAIN mgr'.heap :
            mgr'.heap[b].refs =
              (IF b \in CachedBlobs(mgr') THEN 1 ELSE 0) + mgr'.heap[b].held
     /\ HandedBlob =>
          /\ mgr'.heap[mgr'.ret.srcblob].held = HeldBefore(mgr'.ret.srcblob) + 1
          /\ \A b \in DOMAIN mgr.heap :
               b # mgr'.ret.srcblob => mgr'.heap[b] = mgr.heap[b]
          /\ mgr'.ret.hit => mgr'.ret.errors = <<>>]_vars

\* a blob stored by a miss during construction has been handed out a second
\* time by a hit: three references, one of them the cache's
C21_Witness ==
  /\ Running(mgr)
  /\ mgr.ret.hit /\ mgr.prev.valid /\ mgr.prev.caching /\ ~mgr.prev.hit
  /\ mgr.ret.srcblob = mgr.prev.srcblob
  /\ mgr.ret.srcblob # NULL
  /\ mgr.heap[mgr.ret.srcblob].refs = 3
  /\ mgr.heap[mgr.ret.srcblob].held = 2

\* C22: once a hash is resident in the cache map, loaded from disk or
\* stored after a compile, no later GetShaderBlob call replaces, removes or
\* overwrites the blob mapped to it until destruction, and a hit never
\* changes the dirty flag.
C22_EntriesStable ==
  [][(Running(mgr) /\ Running(mgr')) =>
       /\ \A h \in DOMAIN mgr.m_ShaderCache :
            /\ h \in DOMAIN mgr'.m_ShaderCache
            /\ mgr'.m_ShaderCache[h] = mgr.m_ShaderCache[h]
            /\ mgr'.heap[mgr.m_ShaderCache[h]].bytes = mgr.heap[mgr.m_ShaderCache[h]].bytes
       /\ (mgr'.calls = mgr.calls + 1 /\ mgr'.ret.hit) =>
            mgr'.m_ShaderCacheDirty = mgr.m_ShaderCacheDirty]_vars

\* an entry loaded from disk has been hit after another shader was stored
\* next to it, and is still mapped to the blob it was loaded into
C22_Witness ==
  /\ Running(mgr) /\ mgr.loaded
  /\ mgr.ret.hit /\ mgr.prev.valid /\ mgr.prev.compiled /\ mgr.prev.caching
  /\ mgr.prev.srcblob # NULL
  /\ mgr.ret.hash # mgr.prev.hash
  /\ mgr.ret.hash \in mgr.prev.keysBefore
  /\ mgr.m_ShaderCache[mgr.ret.hash] = mgr.ret.srcblob
  /\ mgr.m_ShaderCacheDirty

(***************************************************************************)
(* Properties of resizing                                                  *)
(***************************************************************************)
\* the surfaces CheckResizeOutputWindow goes on to compare sizes for
Resizable(id) ==
  /\ ~Unknown(win, id)
  /\ Table[id].wnd # NULL
  /\ Table[id].swap

SizeDiffers(id) == wnds[1] # Table[id].width \/ wnds[2] # Table[id].height

\* the positions in a log of the events of a kind, on the resources named
Where(log, evs, names) ==
  { i \in 1 .. Len(log) : log[i].ev \in evs /\ log[i].res \in names }

\* every event of the first set comes before every event of the second
AllBefore(first, second) == \A i \in first, j \in second : i < j

\* C23: on a live surface with a swap chain CheckResizeOutputWindow returns
\* true exactly when the window's client width or height differs from the
\* stored width or height; when it returns false nothing is flushed,
\* released or created and the surface is as it was.
C23_ResizeDetected ==
  \A id \in IDs, resizeOK \in BOOLEAN, rtvOK \in BOOLEAN, dsvOK \in BOOLEAN :
    Resizable(id) =>
      LET r == CheckResizeOutputWindowOp(win, dev, wnds, id, resizeOK, rtvOK, dsvOK)
      IN  /\ r.ret = 1 <=> SizeDiffers(id)
          /\ r.ret = 0 => r = Result(win, dev, 0)

\* the window has its stored size again, the call has returned false and
\* the clear recorded before it is still pending
C23_Witness ==
  /\ call.op = "CheckResizeOutputWindow"
  /\ call.ret = 0
  /\ Resizable(call.id)
  /\ ~SizeDiffers(call.id)
  /\ dev # <<>>

BackBuffers == {"bb0", "bb1"}

\* C24: when CheckResizeOutputWindow finds a new size with no zero
\* dimension, all pending device work is submitted and completed before a
\* back buffer is released, both back buffers are released before the swap
\* chain is resized, the back buffers are acquired again only after the
\* resize succeeded, and on success the back buffer index is 0 on return.
C24_ResizeStepOrder ==
  \A id \in IDs, resizeOK \in BOOLEAN, rtvOK \in BOOLEAN, dsvOK \in BOOLEAN :
    (Resizable(id) /\ SizeDiffers(id) /\ wnds[1] > 0 /\ wnds[2] > 0) =>
      LET m == ResizeSteps(Table[id], dev, wnds[1], wnds[2], resizeOK, rtvOK, dsvOK)
          r == CheckResizeOutputWindowOp(win, dev, wnds, id, resizeOK, rtvOK, dsvOK)
          released == Where(m.log, {"Release"}, BackBuffers)
          resized == Where(m.log, {"ResizeBuffers", "ResizeBuffersFailed"}, {"swap"})
          acquired == Where(m.log, {"GetBuffer"}, BackBuffers)
      IN  /\ r.win.m_OutputWindows[id] = m.outw
          /\ Len(r.dev) = Len(m.closed) + Len(m.queue)
          /\ Len(m.done) = Len(dev)
          /\ \A i \in released : m.log[i].unfinished = 0
          /\ Cardinality(released) = Cardinality({n \in BackBuffers : ~GetRes(Table[id], n).null})
          /\ Cardinality(resized) = 1
          /\ AllBefore(released, resized)
          /\ AllBefore(resized, acquired)
          /\ Cardinality(acquired) = IF resizeOK THEN 2 ELSE 0
          /\ \A i \in resized : m.log[i].ev = "ResizeBuffers" <=> resizeOK
          /\ resizeOK => m.outw.bbIdx = 0

\* a surface that had been flipped to back buffer 1 and cleared has been
\* resized with success: index 0, back buffers of the window's size,
\* nothing pending
C24_Witness ==
  /\ call.op = "CheckResizeOutputWindow"
  /\ call.ret = 1
  /\ Resizable(call.id)
  /\ Table[call.id].width = MaxDim /\ Table[call.id].height = MaxDim
  /\ ~Table[call.id].bb[1].null /\ Table[call.id].bb[1].w = MaxDim
  /\ ~Table[call.id].bb[2].null
  /\ Table[call.id].bbIdx = 0
  /\ dev = <<>>

SurfaceResources == {"bb0", "bb1", "col", "depth"}

\* the resize of surface id in the present state, for given outcomes of
\* ResizeBuffers and of the creation of the colour and depth targets
ResizeOf(id, resizeOK, rtvOK, dsvOK) ==
  ResizeSteps(Table[id], dev, wnds[1], wnds[2], resizeOK, rtvOK, dsvOK)

FullResize(id) ==
  Resizable(id) /\ SizeDiffers(id) /\ wnds[1] > 0 /\ wnds[2] > 0

\* C25 as stated: during a resize every resource of the surface tied to the
\* old size, both back buffers, the colour target and the depth target if
\* there is one, is released before any resource at the new size is created.
C25_AllReleasedBeforeAnyCreated ==
  \A id \in IDs, resizeOK \in BOOLEAN, rtvOK \in BOOLEAN, dsvOK \in BOOLEAN :
    FullResize(id) =>
      LET log == ResizeOf(id, resizeOK, rtvOK, dsvOK).log
      IN  AllBefore(Where(log, {"Release"}, SurfaceResources),
                    Where(log, {"ResizeBuffers", "GetBuffer", "Create"},
                          SurfaceResources \cup {"swap"}))

\* C25: during a resize each resource of the surface tied to the old size is
\* released before the resource that replaces it is created: the back
\* buffers before the swap chain is resized, the old colour target before
\* the new one, the old depth target before the new one. The old colour and
\* depth targets are released only after the new back buffers exist, and
\* the old depth target only after the new colour target was attempted;
\* when ResizeBuffers fails they are not released at all.
C25_EachReleasedBeforeItsReplacement ==
  \A id \in IDs, resizeOK \in BOOLEAN, rtvOK \in BOOLEAN, dsvOK \in BOOLEAN :
    FullResize(id) =>
      LET log == ResizeOf(id, resizeOK, rtvOK, dsvOK).log
          old(n) == ~GetRes(Table[id], n).null
          rel(n) == Where(log, {"Release"}, {n})
          got == Where(log, {"GetBuffer"}, BackBuffers)
      IN  /\ AllBefore(Where(log, {"Release"}, BackBuffers),
                       Where(log, {"ResizeBuffers", "GetBuffer"}, BackBuffers \cup {"swap"}))
          /\ \A n \in {"col", "depth"} :
               /\ AllBefore(rel(n), Where(log, {"Create"}, {n}))
               /\ AllBefore(got, rel(n))
               /\ Cardinality(rel(n)) = IF resizeOK /\ old(n) /\ (n = "col" \/ old("depth"))
                                        THEN 1 ELSE 0
          /\ AllBefore(Where(log, {"Create"}, {"col"}), rel("depth"))
          /\ \A n \in BackBuffers : Cardinality(rel(n)) = IF old(n) THEN 1 ELSE 0
          /\ \A i \in 1 .. Len(log) :
               log[i].ev \in {"GetBuffer", "Create"} =>
                 log[i].w = wnds[1] /\ log[i].h = wnds[2]

\* a surface with a depth target has been resized with success: colour and
\* depth target have the window's size
C25_Witness ==
  /\ call.op = "CheckResizeOutputWindow"
  /\ call.ret = 1
  /\ Resizable(call.id)
  /\ wnds = <<MaxDim, 1>>
  /\ ~Table[call.id].col.null /\ Table[call.id].col.w = MaxDim /\ Table[call.id].col.h = 1
  /\ ~Table[call.id].depth.null /\ Table[call.id].depth.w = MaxDim
  /\ Table[call.id].bb[1].w = MaxDim

ZeroSized == wnds[1] = 0 \/ wnds[2] = 0

\* C26: when the window's new client size has a zero width or height and
\* differs from the stored size, CheckResizeOutputWindow stores the new
\* width and height and returns true, does not resize the swap chain, and
\* leaves back buffers, back buffer index, colour target and depth target as
\* they were; when the window later has a size with no zero dimension the
\* call performs the full resize.
C26_ZeroDimensionResize ==
  \A id \in IDs, resizeOK \in BOOLEAN, rtvOK \in BOOLEAN, dsvOK \in BOOLEAN :
    Resizable(id) =>
      LET outw == Table[id]
          r == CheckResizeOutputWindowOp(win, dev, wnds, id, resizeOK, rtvOK, dsvOK)
          m == ResizeOf(id, resizeOK, rtvOK, dsvOK)
          resized == Where(m.log, {"ResizeBuffers", "ResizeBuffersFailed"}, {"swap"})
      IN  /\ (SizeDiffers(id) /\ ZeroSized) =>
               /\ r.ret = 1
               /\ r.win.m_OutputWindows[id] =
                    [outw EXCEPT !.width = wnds[1], !.height = wnds[2]]
               /\ r.win.m_OutputWindows[id] = m.outw
               /\ m.log = <<>>
          /\ ((outw.width = 0 \/ outw.height = 0) /\ ~ZeroSized) =>
               /\ r.ret = 1
               /\ r.win.m_OutputWindows[id] = m.outw
               /\ Cardinality(resized) = 1
               /\ resizeOK =>
                    /\ m.outw.bb = <<Res(wnds[1], wnds[2], "PRESENT"),
                                     Res(wnds[1], wnds[2], "PRESENT")>>
                    /\ m.outw.bbIdx = 0
                    /\ rtvOK => m.outw.col = Res(wnds[1], wnds[2], "RENDER_TARGET")

\* a surface flipped to back buffer 1 has been through a call that found the
\* window minimised: size 0 stored, buffers and targets of the old size kept
C26_Witness ==
  /\ call.op = "CheckResizeOutputWindow"
  /\ call.ret = 1
  /\ Resizable(call.id)
  /\ wnds = <<0, 0>>
  /\ Table[call.id].width = 0 /\ Table[call.id].height = 0
  /\ ~Table[call.id].bb[1].null /\ Table[call.id].bb[1].w > 0
  /\ ~Table[call.id].col.null /\ Table[call.id].col.w > 0
  /\ Table[call.id].bbIdx = 1

(***************************************************************************)
(* A surface whose resize failed                                           *)
(***************************************************************************)
\* a live surface left with both back buffers NULL
BuffersLost(id) ==
  /\ ~Unknown(win, id)
  /\ Table[id].bb = <<NullRes, NullRes>>

\* C27: when ResizeBuffers fails the surface stays in the live set with both
\* back buffers null; on such a surface FlipOutputWindow records no
\* commands, requests no presentation and leaves the back buffer index,
\* the clear operations do nothing, and BindOutputWindow leaves the cached
\* output dimensions.
C27_FailedResizeSafe ==
  \A id \in IDs :
    /\ FullResize(id) =>
         \A rtvOK \in BOOLEAN, dsvOK \in BOOLEAN :
           LET r == CheckResizeOutputWindowOp(win, dev, wnds, id, FALSE, rtvOK, dsvOK)
           IN  /\ id \in DOMAIN r.win.m_OutputWindows
               /\ r.win.m_OutputWindows[id].bb = <<NullRes, NullRes>>
    /\ BuffersLost(id) =>
         /\ FlipOutputWindowOp(win, dev, id) = Result(win, dev, 0)
         /\ ClearOutputWindowColourOp(win, dev, id) = Result(win, dev, 0)
         /\ ClearOutputWindowDepthOp(win, dev, id) = Result(win, dev, 0)
         /\ BindOutputWindowOp(win, dev, id).win.m_width = win.m_width
         /\ BindOutputWindowOp(win, dev, id).win.m_height = win.m_height

(***************************************************************************)
(* The back buffer index                                                   *)
(***************************************************************************)
RECURSIVE Flipped(_, _, _)
\* the manager after n calls of FlipOutputWindow(id)
Flipped(w, id, n) ==
  IF n = 0 THEN w ELSE FlipOutputWindowOp(Flipped(w, id, n - 1), <<>>, id).win

IndexAfter(w, id) == w.m_OutputWindows[id].bbIdx

\* the calls on a surface other than creation, a resize and a flip,
\* each followed or not by a render to the current surface
OtherCalls(id) ==
  LET direct == { HandleOp(op, win, dev, wnds, id) :
                    op \in {"ClearOutputWindowColour", "ClearOutputWindowDepth",
                            "GetOutputWindowDimensions", "BindOutputWindow"} }
                \cup { HandleOp(op, win, dev, wnds, other) :
                         op \in SevenOps, other \in IDs \ {id} }
                \cup { RenderCheckerboardOp(win, dev), AllocRTVOp(win, dev) }
                \cup { RenderTextureOp(win, dev, known) : known \in BOOLEAN }
  IN  direct \cup { RenderCheckerboardOp(r.win, r.dev) : r \in direct }

\* the step was FlipOutputWindow(id) on a surface with back buffers
FlipStep(id) ==
  /\ ~Unknown(win, id)
  /\ ~Table[id].bb[1].null
  /\ win' # win
  /\ win' = FlipOutputWindowOp(win, dev, id).win

\* the step was CheckResizeOutputWindow(id) and ResizeBuffers succeeded
ResizeSucceededStep(id) ==
  /\ FullResize(id)
  /\ call'.op = "CheckResizeOutputWindow" /\ call'.id = id /\ call'.ret = 1
  /\ ~Table'[id].bb[1].null

\* the calls that are not a flip of a surface with back buffers, a successful
\* resize or a creation leave the index of a live surface
IndexKept(id) ==
  /\ IndexAfter(win, id) \in {0, 1}
  /\ \A r \in OtherCalls(id) : IndexAfter(r.win, id) = IndexAfter(win, id)
  /\ \A rtvOK \in BOOLEAN, dsvOK \in BOOLEAN :
       LET failed == CheckResizeOutputWindowOp(win, dev, wnds, id, FALSE, rtvOK, dsvOK)
       IN  IndexAfter(failed.win, id) = IndexAfter(win, id)
  /\ (~FullResize(id)) =>
       IndexAfter(CheckResizeOutputWindowOp(win, dev, wnds, id, TRUE, TRUE, TRUE).win, id)
         = IndexAfter(win, id)
  /\ Table[id].bb[1].null =>
       IndexAfter(FlipOutputWindowOp(win, dev, id).win, id) = IndexAfter(win, id)

\* what a step does to the index of surface id
IndexStep(id) ==
  /\ (Unknown(win, id) /\ ~Unknown(win', id)) =>
       /\ IndexAfter(win', id) = 0
       /\ \A n \in 0 .. MaxFlips : IndexAfter(Flipped(win', id, n), id) = n % 2
  /\ (~Unknown(win, id) /\ ~Unknown(win', id)) =>
       /\ ResizeSucceededStep(id) =>
            /\ IndexAfter(win', id) = 0
            /\ \A n \in 0 .. MaxFlips : IndexAfter(Flipped(win', id, n), id) = n % 2
       /\ FlipStep(id) => IndexAfter(win', id) = (IndexAfter(win, id) + 1) % 2
       /\ (IndexAfter(win', id) # IndexAfter(win, id)) =>
            (FlipStep(id) \/ ResizeSucceededStep(id))

\* C28: the back buffer index of every live surface is 0 or 1; it is 0 after
\* creation and after every successful resize to a size with no zero
\* dimension; n flips of a surface with back buffers after such a reset
\* leave it at n mod 2; and nothing but FlipOutputWindow, a successful
\* resize and creation changes it.
C28_BackBufferIndex ==
  /\ [](\A id \in IDs : ~Unknown(win, id) => IndexKept(id))
  /\ [][\A id \in IDs : IndexStep(id)]_vars

\* a successful resize has just put the index of a surface back to 0, and
\* one flip from here leaves it at 1
C28_Witness ==
  /\ call.op = "CheckResizeOutputWindow"
  /\ call.ret = 1
  /\ ~Unknown(win, call.id)
  /\ ~Table[call.id].bb[1].null
  /\ Table[call.id].bb[1].w = wnds[1] /\ Table[call.id].bb[1].h = wnds[2]
  /\ Table[call.id].bbIdx = 0
  /\ IndexAfter(Flipped(win, call.id, 1), call.id) = 1

(***************************************************************************)
(* The states FlipOutputWindow takes its resources to be in                *)
(***************************************************************************)
\* FlipOutputWindow(id) gets past both early returns
FlipRuns(id) ==
  /\ ~Unknown(win, id)
  /\ ~Table[id].bb[1].null

\* the barriers among the completed commands that name a resource, as
\* <<position in the list, position of the resource in the barrier>>
BarriersOn(cmds, name) ==
  { <<i, k>> \in (1 .. Len(cmds)) \X (1 .. 2) :
      /\ cmds[i].cmd = "ResourceBarrier"
      /\ k <= Len(cmds[i].res)
      /\ cmds[i].res[k] = name }

\* the state the completed commands leave a resource in
StateLeft(cmds, name, entry) ==
  LET on == BarriersOn(cmds, name)
  IN  IF on = {}
      THEN entry
      ELSE LET last == CHOOSE p \in on : \A q \in on : q[1] <= p[1]
           IN  cmds[last[1]].to[last[2]]

\* C29: whenever FlipOutputWindow runs on a surface with back buffers, the
\* colour target is in the render-target state and the current back buffer
\* in the presentable state on entry, and both are in those states again on
\* return.
C29_FlipStateAssumptions ==
  \A id \in IDs :
    FlipRuns(id) =>
      LET outw == Table[id]
          b == FlipBarriers(outw)
          m == FlipSteps(outw, dev)
          col == GetRes(outw, b.res[1])
          bb == GetRes(outw, b.res[2])
      IN  /\ ~col.null /\ col.state = b.from[1]
          /\ ~bb.null /\ bb.state = b.from[2]
          /\ b.from = <<"RENDER_TARGET", "PRESENT">>
          /\ StateLeft(m.done, b.res[1], col.state) = "RENDER_TARGET"
          /\ StateLeft(m.done, b.res[2], bb.state) = "PRESENT"

(***************************************************************************)
(* Alignment of the character ring                                         *)
(***************************************************************************)
\* C31: after every reservation the cursor is the returned offset plus the
\* character count rounded up to the next multiple of 16 buffer elements,
\* so every offset a reservation returns, and with it every address bound
\* for the character data, is a multiple of 16 elements.
C31_RingAlignment ==
  /\ font.CharOffset % CharAlign = 0
  /\ font.resv.valid =>
       LET end == font.resv.offset + font.resv.chars
       IN  /\ font.resv.from % CharAlign = 0
           /\ font.resv.offset % CharAlign = 0
           /\ font.CharOffset >= end
           /\ font.CharOffset - end < CharAlign

\* a reservation of a length that is no multiple of 16, away from the start
\* of the buffer: the cursor went past its end to the next boundary
C31_Witness ==
  /\ font.resv.valid
  /\ font.resv.offset > 0
  /\ font.resv.chars % CharAlign # 0
  /\ font.CharOffset > font.resv.offset + font.resv.chars

(***************************************************************************)
(* Texts of several lines                                                  *)
(***************************************************************************)
\* the number of newlines before position i of a text
LineOf(text, i) == Cardinality({ j \in 1 .. i - 1 : text[j] = "\n" })

\* the length of line k of a text, the lines counted from 0
LineLen(text, k) ==
  Cardinality({ i \in 1 .. Len(text) : text[i] # "\n" /\ LineOf(text, i) = k })

\* the draws of a text at y: one per line that is not empty, in order
LineDraws(text, y) ==
  LET n == Cardinality({ i \in 1 .. Len(text) : text[i] = "\n" })
      all == [k \in 1 .. n + 1 |-> [y |-> y + k - 1, instances |-> LineLen(text, k - 1)]]
  IN  SelectSeq(all, LAMBDA d : d.instances > 0)

C33_HeapCapacity ==
  /\ \A slot \in win.allocated : slot < RTVHeapSize
  /\ \A id \in DOMAIN win.m_OutputWindows :
       /\ win.m_OutputWindows[id].rtv < RTVHeapSize
       /\ win.m_OutputWindows[id].dsv < DSVHeapSize
  /\ \A i \in 1 .. Len(win.returned) :
       /\ win.returned[i] < RTVHeapSize
       /\ win.returned[i] < DSVHeapSize

(***************************************************************************)
(* The width of the range after the nudge                                  *)
(***************************************************************************)
\* a float above zero
Positive(a) == a.k = "pinf" \/ (a.k \in {"fin", "recip"} /\ a.v > 0)

\* C34: for every RenderTexture call with rangemax <= rangemin, equal or
\* inverted by any amount, the width rangemax - rangemin the inverse range
\* size is computed from is above zero after the nudge.
C34_NudgePositiveWidth ==
  (tex.last.ret /\ tex.last.degenerate) => Positive(tex.last.width)

(***************************************************************************)
(* The output dimensions the draws use                                     *)
(***************************************************************************)
\* the surface m_CurrentOutputWindow names is live and has its back buffers
\* and its colour target
BoundUsable ==
  /\ ~Unknown(win, win.m_CurrentOutputWindow)
  /\ ~Table[win.m_CurrentOutputWindow].bb[1].null
  /\ ~Table[win.m_CurrentOutputWindow].col.null

\* C35: whenever RenderTexture runs with a usable surface bound, the cached
\* output width and height (GetWidth, GetHeight) are the stored width and
\* height of the bound surface, also after a CheckResizeOutputWindow on the
\* bound surface that no new bind has followed.
C35_DimensionsMatchBound ==
  (call.op = "RenderTexture" /\ call.ret = 1 /\ BoundUsable) =>
    /\ win.m_width = Table[win.m_CurrentOutputWindow].width
    /\ win.m_height = Table[win.m_CurrentOutputWindow].height

(***************************************************************************)
(* Releases and the work still pending                                     *)
(***************************************************************************)
\* the releases in a log of statements that found work recorded earlier
\* not yet completed by the device
EarlyReleases(log) ==
  { i \in 1 .. Len(log) : log[i].ev = "Release" /\ log[i].unfinished > 0 }

\* C36: when DestroyOutputWindow or CheckResizeOutputWindow releases the
\* back buffers, the colour target or the depth target of a surface, no
\* command list recorded against the surface is unsubmitted or uncompleted.
\* There is one surface, so every list on the device is recorded against it.
C36_NoReleaseWhilePending ==
  \A id \in IDs :
    (~Unknown(win, id)) =>
      /\ EarlyReleases(DestroySteps(Table[id], dev).log) = {}
      /\ DestroyOutputWindowOp(win, dev, id).dev = dev
      /\ FullResize(id) =>
           \A resizeOK \in BOOLEAN, rtvOK \in BOOLEAN, dsvOK \in BOOLEAN :
             EarlyReleases(ResizeOf(id, resizeOK, rtvOK, dsvOK).log) = {}

====
